---- MODULE Spec2Model ----
(***************************************************************************)
(* Model of the green (instructor) agent of pragmatic_builder:             *)
(* BuildingInstructorGreenAgent.run_eval with its helpers turn,            *)
(* send_feedback, eval_message, _fallback_answer and _normalize_structure  *)
(* (src/pragmatic_builder/green_agent.py).                                 *)
(*                                                                         *)
(* Text that the program parses (builder replies, target structures,       *)
(* questions) is a sequence of one-character strings, so that split, strip,*)
(* capitalize and lower are computed character by character.  Text that   *)
(* the program only formats and hands on (prompts, feedback, answers) is a *)
(* record [text |-> the literal of the source, args |-> the interpolated   *)
(* values], args being empty for a plain (non f-) string literal.          *)
(***************************************************************************)
EXTENDS Integers, Sequences, FiniteSets, TLC

\* ------------------------------------------------------------------------
\* Bounds of the model
\* ------------------------------------------------------------------------
\* longest instructions_A / instructions_B list drawn for a run
MaxInstrA == 2
MaxInstrB == 1
\* most [ASK] replies the builder gives within one instruction
MaxAsks == 1
\* bound on the questions of the instruction of a one-instruction selection
MaxAsksAlone == 3
\* most ';'-separated entries after the action tag of a reply, and of a
\* target structure, when eval_message is checked on its own
MaxEntries == 2
MaxTargetEntries == 2

\* ------------------------------------------------------------------------
\* Characters and the str methods used by green_agent.py
\* ------------------------------------------------------------------------
LowerLetters ==
  <<"a","b","c","d","e","f","g","h","i","j","k","l","m",
    "n","o","p","q","r","s","t","u","v","w","x","y","z">>
UpperLetters ==
  <<"A","B","C","D","E","F","G","H","I","J","K","L","M",
    "N","O","P","Q","R","S","T","U","V","W","X","Y","Z">>

\* the characters of the model's texts in code point order (str comparison)
CodePoints ==
  <<" ", ",", "-", ".", "0", "1", "2", "3", "4", "5", "6", "7", "8", "9",
    ";", "?">> \o UpperLetters \o <<"[", "]", "_">> \o LowerLetters

Whitespace == {" "}

IndexIn(seq, c) ==
  IF \E i \in 1..Len(seq) : seq[i] = c
  THEN CHOOSE i \in 1..Len(seq) : seq[i] = c
  ELSE 0

Ord(c) == IndexIn(CodePoints, c)

\* str.lower / str.upper on one character
LowerChar(c) ==
  IF IndexIn(UpperLetters, c) > 0 THEN LowerLetters[IndexIn(UpperLetters, c)] ELSE c
UpperChar(c) ==
  IF IndexIn(LowerLetters, c) > 0 THEN UpperLetters[IndexIn(LowerLetters, c)] ELSE c

\* str.lower()
Lower(s) == [i \in 1..Len(s) |-> LowerChar(s[i])]

\* str.capitalize(): first character upper-cased, the rest lower-cased
Capitalize(s) ==
  [i \in 1..Len(s) |-> IF i = 1 THEN UpperChar(s[i]) ELSE LowerChar(s[i])]

\* str.strip(): leading and trailing whitespace removed
RECURSIVE LStrip(_)
LStrip(s) ==
  IF s # <<>> /\ Head(s) \in Whitespace THEN LStrip(Tail(s)) ELSE s
RECURSIVE RStrip(_)
RStrip(s) ==
  IF s # <<>> /\ s[Len(s)] \in Whitespace
  THEN RStrip(SubSeq(s, 1, Len(s) - 1))
  ELSE s
Strip(s) == RStrip(LStrip(s))

\* str.split(sep) for a one-character separator: always at least one field
RECURSIVE Split(_, _)
Split(s, sep) ==
  LET i == IndexIn(s, sep) IN
  IF i = 0
  THEN <<s>>
  ELSE <<SubSeq(s, 1, i - 1)>> \o Split(SubSeq(s, i + 1, Len(s)), sep)

\* str.split(sep, 1)[0]: the text before the first separator
FirstField(s, sep) ==
  LET i == IndexIn(s, sep) IN
  IF i = 0 THEN s ELSE SubSeq(s, 1, i - 1)

\* sep.join(fields)
RECURSIVE Join(_, _)
Join(fields, sep) ==
  IF fields = <<>> THEN <<>>
  ELSE IF Len(fields) = 1 THEN fields[1]
  ELSE fields[1] \o sep \o Join(Tail(fields), sep)

\* sub in s
Contains(s, sub) ==
  \E i \in 1..(Len(s) - Len(sub) + 1) : SubSeq(s, i, i + Len(sub) - 1) = sub

\* s < t in Python's str ordering (by code point, a proper prefix first)
RECURSIVE StrLess(_, _)
StrLess(s, t) ==
  IF t = <<>> THEN FALSE
  ELSE IF s = <<>> THEN TRUE
  ELSE IF Head(s) = Head(t) THEN StrLess(Tail(s), Tail(t))
  ELSE Ord(Head(s)) < Ord(Head(t))

\* sorted(set(...)) of strings
RECURSIVE Sorted(_)
Sorted(S) ==
  IF S = {} THEN <<>>
  ELSE LET m == CHOOSE x \in S : \A y \in S \ {x} : StrLess(x, y)
       IN  <<m>> \o Sorted(S \ {m})

Last(seq) == seq[Len(seq)]


\* ------------------------------------------------------------------------
\* Values
\* ------------------------------------------------------------------------
\* Python's None, and a value that is not None, kept apart from it by shape
None == <<>>
Some(v) == <<v>>

\* an empty dict ({})
EmptyDict == [k \in {} |-> {}]

\* an f-string or plain literal: the literal of the source and the values
\* interpolated into it
Text(text, args) == [text |-> text, args |-> args]

\* ------------------------------------------------------------------------
\* BuildingInstructorGreenAgent._normalize_structure
\* ------------------------------------------------------------------------
\* line 184 without capitalize(): the color is taken as written
ColorAsWritten(parts) == Strip(parts[1])

\* line 184: color = parts[0].strip().capitalize()
ColorOf(parts) == Capitalize(Strip(parts[1]))

\* one item of the loop body without the test of line 182 (len(parts) != 4)
NormalizeItemAnyLength(item) ==
  LET stripped == Strip(item)
      parts == Split(stripped, ",")
  IN  IF stripped = <<>> THEN {}
      ELSE {Join(<<ColorOf(parts)>>
                   \o [i \in 1..(Len(parts) - 1) |-> Strip(parts[i + 1])], <<",">>)}

\* one item of the loop body: the set of entries the item adds (none or one)
NormalizeItem(item) ==
  LET stripped == Strip(item)
      parts == Split(stripped, ",")
  IN  IF stripped = <<>> THEN {}
      ELSE IF Len(parts) # 4 THEN {}
      ELSE {Join(<<ColorOf(parts)>> \o [i \in 1..3 |-> Strip(parts[i + 1])], <<",">>)}

\* lines 177-186 as a loop that ends after its first item
NormalizeFirstOnly(items) ==
  IF items = <<>> THEN {} ELSE NormalizeItem(items[1])

\* lines 173-187
_normalize_structure(items) ==
  UNION {NormalizeItem(items[i]) : i \in 1..Len(items)}

\* ------------------------------------------------------------------------
\* BuildingInstructorGreenAgent._fallback_answer
\* ------------------------------------------------------------------------
_fallback_answer(question, target_structure) ==
  LET blocks == Split(target_structure, ";")
      colors == {FirstField(blocks[i], ",") : i \in {j \in 1..Len(blocks) : blocks[j] # <<>>}}
      unique_colors == Sorted(colors)
  IN  IF Contains(Lower(question), <<"c","o","l","o","r">>) /\ unique_colors # <<>>
      THEN Text("Colors in target: {', '.join(unique_colors)}.",
                <<Join(unique_colors, <<",", " ">>)>>)
      ELSE Text("I can answer questions about the target structure.", <<>>)

\* ------------------------------------------------------------------------
\* BuildingInstructorGreenAgent.eval_message
\* ------------------------------------------------------------------------
BUILD == <<"[","B","U","I","L","D","]">>
ASK == <<"[","A","S","K","]">>

\* string_response[0] of response.split(";")
ActionOf(response) == Split(response, ";")[1]

\* n / d of Python and a raised exception, as values
Raises(q) == "raises" \in DOMAIN q

\* case "[BUILD]" with no score in the outcome
EvalBuildUnscored(string_response, target_structure) ==
  [message |-> Text("Correct structure built. {target_structure}",
                    <<target_structure>>),
   num_correct |-> None,
   num_questions |-> 0,
   built |-> TRUE]

\* case "[BUILD]"
EvalBuild(string_response, target_structure) ==
  LET content == _normalize_structure(Tail(string_response))
      target_structure_set == _normalize_structure(Split(target_structure, ";"))
  IN  IF content = target_structure_set
      THEN [message |-> Text("Correct structure built. {target_structure}",
                             <<target_structure>>),
            num_correct |-> Some(1),
            num_questions |-> 0,
            built |-> TRUE]
      ELSE [message |-> Text("Incorrect structure. Expected: {target_structure}, but got: {';'.join(content)}",
                             <<>>),
            num_correct |-> Some(0),
            num_questions |-> 0,
            built |-> TRUE]

\* line 147 joining on ',' instead of ';'
AskContentCommaJoined(string_response) ==
  Strip(Join(Tail(string_response), <<",">>))

\* case "[ASK]": the question handed to the QA service or to the fallback
AskContent(string_response) == Strip(Join(Tail(string_response), <<";">>))

\* case "[ASK]" with the loop ended by the answer
EvalAskEnds(answer) ==
  [message |-> Text("Answer: {answer}", <<answer>>),
   num_correct |-> None,
   num_questions |-> 1,
   built |-> TRUE]

\* case "[ASK]": the outcome for a given answer
EvalAsk(answer) ==
  [message |-> Text("Answer: {answer}", <<answer>>),
   num_correct |-> None,
   num_questions |-> 1,
   built |-> FALSE]

\* the match statement with [ASK] as the default case
MatchActionDefaultAsk(action) ==
  IF action = BUILD THEN "[BUILD]" ELSE "[ASK]"

\* the match statement: which case a reply falls into
MatchAction(action) ==
  IF action = BUILD THEN "[BUILD]"
  ELSE IF action = ASK THEN "[ASK]"
  ELSE "_"

\* lines 148-154: the answer comes from the QA service when one is configured
\* (qa_answer is what it returned), from the fallback otherwise
AnswerTo(has_qa, qa_answer, question, target_structure) ==
  IF has_qa THEN qa_answer ELSE _fallback_answer(question, target_structure)

\* line 160: ServerError(error=InvalidParamsError(message="Invalid action in
\* response")); the message is a plain literal
InvalidActionError ==
  [raises |-> "ServerError(InvalidParamsError)",
   message |-> Text("Invalid action in response", <<>>)]

\* eval_message: the outcome dict, or the exception of line 160
eval_message(response, target_structure, has_qa, qa_answer) ==
  LET string_response == Split(response, ";")
      action == string_response[1]
  IN  CASE MatchAction(action) = "[BUILD]" ->
             EvalBuild(string_response, target_structure)
        [] MatchAction(action) = "[ASK]" ->
             EvalAsk(AnswerTo(has_qa, qa_answer, AskContent(string_response),
                              target_structure))
        [] OTHER -> InvalidActionError


\* ------------------------------------------------------------------------
\* agentbeats/models.py
\* ------------------------------------------------------------------------
\* the fields of EvalResult; both are required (no default)
EvalResultFields == {"status", "details"}

\* EvalResult(**kwargs): pydantic rejects a call that lacks a required field
\* and ignores keywords that are not fields of the model
EvalResultValid(kwargs) == EvalResultFields \subseteq DOMAIN kwargs
EvalResult(kwargs) == [f \in EvalResultFields |-> kwargs[f]]

\* ------------------------------------------------------------------------
\* Arithmetic of the metrics
\* ------------------------------------------------------------------------
\* n / d of Python: a quotient, or ZeroDivisionError
TrueDiv(n, d) ==
  IF d = 0 THEN [raises |-> "ZeroDivisionError"] ELSE [num |-> n, den |-> d]

\* line 109 without the "if scored_count" guard
AccuracyUnguarded(nc, sc) ==
  LET q == TrueDiv(nc, sc)
  IN  IF Raises(q) THEN q ELSE [num |-> q.num * 100, den |-> q.den]

\* line 109: (num_correct / scored_count * 100.0) if scored_count else 0.0
Accuracy(nc, sc) ==
  IF sc # 0
  THEN LET q == TrueDiv(nc, sc) IN [num |-> q.num * 100, den |-> q.den]
  ELSE [num |-> 0, den |-> 1]

\* ------------------------------------------------------------------------
\* Inputs of a run
\* ------------------------------------------------------------------------
\* target structures of the trials
TargetRed == <<"R","e","d",",","0",",","5","0",",","0">>
TargetRedBlue ==
  <<"R","e","d",",","0",",","5","0",",","0",";",
    "b","l","u","e",",","1",",","5","0",",","0">>

\* rows of the stimuli lists that a selection is made of
TrialPool ==
  { [trial_id |-> "1", start_structure |-> "", instruction |-> "sentence 1",
     target_structure |-> TargetRed],
    [trial_id |-> "2a", start_structure |-> "Red,0,50,0", instruction |-> "sentence 2a",
     target_structure |-> TargetRedBlue],
    [trial_id |-> "3", start_structure |-> "", instruction |-> "sentence 3",
     target_structure |-> TargetRed] }

\* replies of the builder
\* "[BUILD];red,0,50,0;"
ReplyBuildRed ==
  BUILD \o <<";","r","e","d",",","0",",","5","0",",","0",";">>
\* "[BUILD];BLUE,1,50,0; rED , 0,50,0 ;Red,0,50,0"
ReplyBuildRedBlue ==
  BUILD \o <<";","B","L","U","E",",","1",",","5","0",",","0",";",
             " ","r","E","D"," ",","," ","0",",","5","0",",","0"," ",";",
             "R","e","d",",","0",",","5","0",",","0">>
\* "[ASK]; which Color;where? "
ReplyAsk ==
  ASK \o <<";"," ","w","h","i","c","h"," ","C","o","l","o","r",";",
           "w","h","e","r","e","?"," ">>
\* "[FOO];x"
ReplyFoo == <<"[","F","O","O","]",";","x">>
\* " [BUILD];Red,0,50,0"
ReplySpaceBuild ==
  <<" ">> \o BUILD \o <<";","R","e","d",",","0",",","5","0",",","0">>
Replies ==
  { ReplyBuildRed, ReplyBuildRedBlue,
    ReplyAsk,
    ReplyFoo, ReplySpaceBuild }

\* answers of the QA service
QAAnswers == {Text("It is red.", <<>>)}

\* participants maps of a request: the builder under "rita" or under "Rita"
BuilderUrl == "http://builder/"
ParticipantMaps ==
  { [k \in {"rita"} |-> BuilderUrl], [k \in {"Rita"} |-> BuilderUrl] }

\* purple_openai/server.py lines 52-53: "[ASK];missing OPENAI_API_KEY"
ReplyMissingKey ==
  ASK \o <<";","m","i","s","s","i","n","g"," ","O","P","E","N","A","I","_","A","P","I","_","K","E","Y">>
\* purple_openai/server.py line 78: "[ASK];error from model"
ReplyModelError ==
  ASK \o <<";","e","r","r","o","r"," ","f","r","o","m"," ","m","o","d","e","l">>

\* purple_openai/server.py lines 46-82: the reply OpenAIPurpleAgent.execute
\* enqueues; completion is None if the model call raised, else the content
\* of the first choice
OpenAIPurpleAgent_execute(has_api_key, completion) ==
  IF ~has_api_key THEN ReplyMissingKey
  ELSE IF completion = None THEN ReplyModelError
  ELSE Strip(completion[1])

\* sequences over S of length 0..n
SeqsUpTo(S, n) == UNION {[1..k -> S] : k \in 0..n}

\* sequences over S of length 0..n without a repeated element: a pool entry
\* is consumed by at most one slot (building_task.py lines 178-214)
InjectiveSeqsUpTo(S, n) ==
  {q \in SeqsUpTo(S, n) : \A i, j \in 1..Len(q) : q[i] = q[j] => i = j}

\* the pairs of row lists a selection can be made of: the two speakers draw
\* from complementary lists (building_task.py lines 112-128), so no row is
\* issued twice in a run
Selections ==
  {sel \in InjectiveSeqsUpTo(TrialPool, MaxInstrA)
            \X InjectiveSeqsUpTo(TrialPool, MaxInstrB) :
     \A i \in 1..Len(sel[1]), j \in 1..Len(sel[2]) : sel[1][i] # sel[2][j]}

\* building_task.py lines 239-243: rounds 1..len(A) on instructions_A and
\* len(A)+1.. on instructions_B
WithRounds(rows, offset) ==
  [i \in 1..Len(rows) |->
     [round |-> i + offset,
      trial_id |-> rows[i].trial_id,
      start_structure |-> rows[i].start_structure,
      instruction |-> rows[i].instruction,
      target_structure |-> rows[i].target_structure]]

GridContext == "Grid: 9x9 cells. ..."

\* the dict returned by BuildingGameTask.run, as far as run_eval reads it
Trials(rowsA, rowsB) ==
  [grid_context |-> GridContext,
   instructions_A |-> WithRounds(rowsA, 0),
   instructions_B |-> WithRounds(rowsB, Len(rowsA))]


\* ------------------------------------------------------------------------
\* State
\* ------------------------------------------------------------------------
VARIABLES
  qa,                     \* self._qa is configured (QuestionAnswerer.from_env)
  recorder,               \* self._recorder is configured
  transcript,             \* lines written by self._recorder.record
  resets,                 \* number of self._tool_provider.reset() calls
  pc,                     \* position of run_eval
  error,                  \* the exception run_eval raised, "none" if none
  req,                    \* req.participants
  trials,                 \* trials = bulding_task.run(None)
  speaker_idx,            \* position of the loop of line 77 (1 = A, 2 = B)
  instr_idx,              \* position of the loop of line 80
  prompt_chain,           \* the prompt_chain list of each speaker
  response_chain,         \* the response_chain list of each speaker
  round_questions_count,
  prompt,
  built,
  eval_result,
  instruction_response,
  content,                \* content of the last eval_message([ASK]) call
  results,
  num_correct,
  scored_count,
  questions_count,
  accuracy,
  avg_questions_per_instruction,  \* line 110 rebinds questions_count to it
  result,                 \* the value run_eval returned
  artifacts,              \* artifacts added through updater.add_artifact
  status,                 \* messages of updater.update_status
  sent,                   \* calls of self._tool_provider.talk_to_agent
  received,               \* replies talk_to_agent returned to turn
  qa_calls,               \* calls of self._qa.answer
  error_message,          \* the message of the error eval_message raised
  list1_data,             \* BuildingGameTask.list1_data: the rows of the CSV
  list2_data,             \* BuildingGameTask.list2_data
  seed,                   \* the seed each BuildingGameTask was built with
  mt,                     \* what random.Random(s) yields, once observed
  rng_draws,              \* what self.rng yielded in each task's run
  returned,               \* what each task's run returned
  categorized,            \* what a call of _categorize_trials returned
  generated,              \* a call of generate_instructions_for_speaker
  updater_calls,          \* calls of updater.complete and updater.failed
  execute_error           \* the exception GreenExecutor.execute raised

vars ==
  << qa, recorder, transcript, resets, pc, error, req, trials, speaker_idx,
     instr_idx, prompt_chain, response_chain, round_questions_count, prompt,
     built, eval_result, instruction_response, content, results, num_correct,
     scored_count, questions_count, accuracy, avg_questions_per_instruction,
     result, artifacts, status, sent, received, qa_calls, error_message,
     list1_data, list2_data, seed, mt, rng_draws, returned, categorized,
     generated, updater_calls, execute_error >>

\* the locals of one instruction's loop
loopVars ==
  << round_questions_count, prompt, built, eval_result, instruction_response,
     content >>
\* the running totals
totalVars == << results, num_correct, scored_count, questions_count >>
\* the metrics and the outcome
endVars == << accuracy, avg_questions_per_instruction, result, artifacts, resets >>
\* the request, the selection and the agent's configuration
inputVars == << qa, recorder, req, trials >>
\* the positions of the two for loops
posVars == << speaker_idx, instr_idx >>
\* what went to and came from the collaborators
ioVars == << transcript, status, sent, received, qa_calls >>
chainVars == << prompt_chain, response_chain >>
\* the BuildingGameTask objects and the generator they draw from
taskVars ==
  << list1_data, list2_data, seed, mt, rng_draws, returned, categorized,
     generated >>

\* the end of GreenExecutor.execute
execVars == << updater_calls, execute_error >>

NoText == Text("", <<>>)
NoRatio == [num |-> 0, den |-> 1]
NoResult == [status |-> "", details |-> EmptyDict]

\* the seeds a BuildingGameTask is built with in this model
SeedValues == {7}

\* no BuildingGameTask has been built
NoTask ==
  /\ list1_data = <<>>
  /\ list2_data = <<>>
  /\ seed = <<>>
  /\ mt = [s \in SeedValues |-> None]
  /\ rng_draws = <<>>
  /\ returned = <<>>
  /\ categorized = None
  /\ generated = None

\* the agent after __init__, before any request
Constructed ==
  /\ qa \in BOOLEAN
  /\ recorder \in BOOLEAN
  /\ transcript = <<>>
  /\ resets = 0
  /\ error = "none"
  /\ req = [participants |-> EmptyDict]
  /\ speaker_idx = 1
  /\ instr_idx = 1
  /\ prompt_chain = [i \in 1..2 |-> <<>>]
  /\ response_chain = [i \in 1..2 |-> <<>>]
  /\ round_questions_count = 0
  /\ prompt = NoText
  /\ built = FALSE
  /\ eval_result = EmptyDict
  /\ content = <<>>
  /\ results = EmptyDict
  /\ num_correct = 0
  /\ scored_count = 0
  /\ questions_count = 0
  /\ accuracy = NoRatio
  /\ avg_questions_per_instruction = NoRatio
  /\ result = NoResult
  /\ artifacts = <<>>
  /\ status = <<>>
  /\ sent = <<>>
  /\ received = <<>>
  /\ qa_calls = <<>>
  /\ error_message = NoText
  /\ updater_calls = <<>>
  /\ execute_error = None

Init ==
  /\ Constructed
  /\ NoTask
  /\ pc = "idle"
  /\ trials = Trials(<<>>, <<>>)
  /\ instruction_response = <<>>

\* ------------------------------------------------------------------------
\* run_eval
\* ------------------------------------------------------------------------
\* line 76
purple_agent_role == "rita"

\* line 77 with the two lists in the other order
SpeakerListsReversed(t) == <<t.instructions_B, t.instructions_A>>

\* line 77: for speaker in [trials["instructions_A"], trials["instructions_B"]]
SpeakerLists(t) == <<t.instructions_A, t.instructions_B>>

\* the instruction the inner loop is at
CurrentInstruction == SpeakerLists(trials)[speaker_idx][instr_idx]

\* line 75
task_description ==
  Text("[TASK_DESCRIPTION] {trials['grid_context']})", <<trials.grid_context>>)

\* line 82
InitialPrompt(instruction) ==
  Text("{task_description}\n[START_STRUCTURE] {instruction['start_structure']}\n{instruction['instruction']}",
       <<task_description, instruction.start_structure, instruction.instruction>>)

\* line 96 sending the outcome message as it is
FeedbackMessageBare(er) == er.message

\* line 96
FeedbackMessage(er) == Text("Feedback: {eval_result['message']}", <<er.message>>)

\* line 86 as a loop that runs its body once
LoopRunsOnce(b) == FALSE

\* line 86: while built is not True
LoopContinues(b) == b # TRUE

\* self._recorder.record(line) if self._recorder
Record(log, line) == IF recorder THEN Append(log, line) ELSE log

\* raise: run_eval ends with the exception e
Raise(e) == pc' = "raised" /\ error' = e

\* lines 50-51, 62 with the call wrapped in a handler that goes on to call
\* again
CallFailureRetried(e) == pc' = pc /\ error' = e

\* lines 50-51, 62: await talk_to_agent(...) stands in no try block, so what
\* it raises leaves turn / send_feedback and run_eval
CallFailure(e) == Raise(e)

\* line 27: self._required_roles = ["rita"]
_required_roles == <<"rita">>

\* lines 124-125: return True, "ok"
validate_request(request) == <<TRUE, Text("ok", <<>>)>>

\* evaluator_proxy.py line 80
StartingLine(request) ==
  Text("Starting assessment.\n{req.model_dump_json()}", <<request>>)

\* a request arrives: GreenExecutor.execute validates it and publishes the
\* start of the assessment (evaluator_proxy.py lines 61-84), then run_eval
\* generates the selection (green_agent.py lines 39-76)
RunEval ==
  /\ pc = "idle"
  /\ \E p \in ParticipantMaps :
       /\ req' = [participants |-> p]
       /\ IF validate_request(req')[1]
          THEN /\ \E sel \in Selections : trials' = Trials(sel[1], sel[2])
               /\ status' = Append(status, StartingLine(req'))
               /\ pc' = "for_speaker"
               /\ UNCHANGED << error, error_message, execute_error >>
          ELSE /\ Raise("ServerError(InvalidParamsError)")
               /\ error_message' = validate_request(req')[2]
               /\ execute_error' =
                    Some([error |-> "InvalidParamsError",
                          message |-> validate_request(req')[2]])
               /\ UNCHANGED << trials, status >>
  /\ results' = EmptyDict
  /\ num_correct' = 0
  /\ scored_count' = 0
  /\ questions_count' = 0
  /\ speaker_idx' = 1
  /\ UNCHANGED << qa, recorder, instr_idx, loopVars, endVars, chainVars,
                  transcript, sent, received, qa_calls >>
  /\ UNCHANGED << taskVars, updater_calls >>

\* lines 77-79: the next speaker's list is entered
EnterSpeaker ==
  /\ pc = "for_speaker"
  /\ speaker_idx <= Len(SpeakerLists(trials))
  /\ prompt_chain' = [prompt_chain EXCEPT ![speaker_idx] = <<>>]
  /\ response_chain' = [response_chain EXCEPT ![speaker_idx] = <<>>]
  /\ instr_idx' = 1
  /\ pc' = "for_instruction"
  /\ UNCHANGED << error, speaker_idx, inputVars, loopVars, totalVars, endVars, ioVars >>
  /\ UNCHANGED << taskVars, execVars, error_message >>

\* line 77: both lists are exhausted
LeaveSpeakers ==
  /\ pc = "for_speaker"
  /\ speaker_idx > Len(SpeakerLists(trials))
  /\ pc' = "metrics"
  /\ UNCHANGED << error, posVars, inputVars, loopVars, totalVars, endVars, ioVars, chainVars >>
  /\ UNCHANGED << taskVars, execVars, error_message >>

\* lines 80-85: the next instruction of the list is started
BeginInstruction ==
  /\ pc = "for_instruction"
  /\ instr_idx <= Len(SpeakerLists(trials)[speaker_idx])
  /\ round_questions_count' = 0
  /\ prompt' = InitialPrompt(CurrentInstruction)
  /\ prompt_chain' = [prompt_chain EXCEPT ![speaker_idx] = Append(@, prompt')]
  /\ built' = FALSE
  /\ eval_result' = EmptyDict
  /\ pc' = "turn"
  /\ UNCHANGED << error, posVars, inputVars, instruction_response, content,
                  response_chain, totalVars, endVars, ioVars >>
  /\ UNCHANGED << taskVars, execVars, error_message >>

\* line 80: the list is exhausted
LeaveSpeaker ==
  /\ pc = "for_instruction"
  /\ instr_idx > Len(SpeakerLists(trials)[speaker_idx])
  /\ speaker_idx' = speaker_idx + 1
  /\ pc' = "for_speaker"
  /\ UNCHANGED << error, instr_idx, inputVars, loopVars, totalVars, endVars, ioVars, chainVars >>
  /\ UNCHANGED << taskVars, execVars, error_message >>


\* ------------------------------------------------------------------------
\* run_eval.turn and the body of the while loop (lines 47-57, 86-95)
\* ------------------------------------------------------------------------
\* a talk_to_agent call
Call(via, message) ==
  [via |-> via, message |-> message, url |-> req.participants[purple_agent_role],
   round |-> CurrentInstruction.round]

\* line 49 / line 61
PromptLine(message) ==
  Text("GREEN -> {role}: {prompt}", <<purple_agent_role, message>>)
\* line 55
ReplyLine(response) ==
  Text("{role} -> GREEN: {response}", <<purple_agent_role, response>>)
\* line 53
StatusLine(response) ==
  Text("{role}: {response}", <<purple_agent_role, response>>)

\* lines 48-57 with the prompt recorded after the reply
TurnReturnsReplyFirst(response) ==
  /\ purple_agent_role \in DOMAIN req.participants
  /\ sent' = Append(sent, Call("turn", prompt))
  /\ received' = Append(received, [round |-> CurrentInstruction.round,
                                   response |-> response])
  /\ status' = Append(status, StatusLine(response))
  /\ transcript' = Record(Record(transcript, ReplyLine(response)), PromptLine(prompt))
  /\ instruction_response' = response
  /\ response_chain' = [response_chain EXCEPT ![speaker_idx] = Append(@, response)]

\* lines 48-57, 88: turn returns response
TurnReturns(response) ==
  /\ purple_agent_role \in DOMAIN req.participants
  /\ sent' = Append(sent, Call("turn", prompt))
  /\ received' = Append(received, [round |-> CurrentInstruction.round,
                                   response |-> response])
  /\ status' = Append(status, StatusLine(response))
  /\ transcript' = Record(Record(transcript, PromptLine(prompt)), ReplyLine(response))
  /\ instruction_response' = response
  /\ response_chain' = [response_chain EXCEPT ![speaker_idx] = Append(@, response)]

\* lines 93-95 and the loop test of line 86
AfterEval ==
  /\ round_questions_count' = round_questions_count + eval_result'.num_questions
  /\ prompt' = eval_result'.message
  /\ built' = eval_result'.built
  /\ pc' = IF LoopContinues(built') THEN "turn" ELSE "feedback"

\* the loop of line 86 has no bound; the model follows the questions of one
\* instruction up to this number
AskBound ==
  IF Len(trials.instructions_A) + Len(trials.instructions_B) = 1
  THEN MaxAsksAlone ELSE MaxAsks

\* the builder replies [BUILD];...
TurnBuild ==
  /\ pc = "turn"
  /\ \E response \in Replies :
       /\ MatchAction(ActionOf(response)) = "[BUILD]"
       /\ TurnReturns(response)
       /\ eval_result' = eval_message(response, CurrentInstruction.target_structure,
                                      qa, None)
  /\ AfterEval
  /\ UNCHANGED << error, posVars, inputVars, content, prompt_chain, totalVars,
                  endVars, qa_calls >>
  /\ UNCHANGED << taskVars, execVars, error_message >>

\* the builder replies [ASK];... and the question is answered
TurnAsk ==
  /\ pc = "turn"
  /\ round_questions_count < AskBound
  /\ \E response \in Replies :
       /\ MatchAction(ActionOf(response)) = "[ASK]"
       /\ TurnReturns(response)
       /\ content' = AskContent(Split(response, ";"))
       /\ \E answer \in IF qa THEN QAAnswers ELSE {None} :
            eval_result' = eval_message(response, CurrentInstruction.target_structure,
                                        qa, answer)
       /\ qa_calls' =
            IF qa
            THEN Append(qa_calls,
                   [question |-> content',
                    target_structure |-> CurrentInstruction.target_structure])
            ELSE qa_calls
  /\ AfterEval
  /\ UNCHANGED << error, posVars, inputVars, prompt_chain, totalVars, endVars >>
  /\ UNCHANGED << taskVars, execVars, error_message >>

\* the builder replies [ASK];... and the call of the QA service fails
TurnAskQAFailure ==
  /\ pc = "turn"
  /\ qa
  /\ round_questions_count < AskBound
  /\ \E response \in Replies :
       /\ MatchAction(ActionOf(response)) = "[ASK]"
       /\ TurnReturns(response)
       /\ content' = AskContent(Split(response, ";"))
       /\ qa_calls' = Append(qa_calls,
             [question |-> content',
              target_structure |-> CurrentInstruction.target_structure])
  /\ Raise("QAError")
  /\ UNCHANGED << posVars, inputVars, round_questions_count, prompt, built,
                  eval_result, prompt_chain, totalVars, endVars >>
  /\ UNCHANGED << taskVars, execVars, error_message >>

\* the builder's reply has another first field: line 160
TurnInvalid ==
  /\ pc = "turn"
  /\ \E response \in Replies :
       /\ MatchAction(ActionOf(response)) = "_"
       /\ TurnReturns(response)
  /\ Raise(InvalidActionError.raises)
  /\ error_message' = InvalidActionError.message
  /\ UNCHANGED << posVars, inputVars, round_questions_count, prompt, built,
                  eval_result, content, prompt_chain, totalVars, endVars, qa_calls >>
  /\ UNCHANGED << taskVars, execVars >>

\* talk_to_agent raises in turn
TurnTransportFailure ==
  /\ pc = "turn"
  /\ purple_agent_role \in DOMAIN req.participants
  /\ sent' = Append(sent, Call("turn", prompt))
  /\ transcript' = Record(transcript, PromptLine(prompt))
  /\ CallFailure("TransportError")
  /\ UNCHANGED << posVars, inputVars, loopVars, chainVars, totalVars, endVars,
                  status, received, qa_calls >>
  /\ UNCHANGED << taskVars, execVars, error_message >>

\* line 50: req.participants[role] has no such key
TurnMissingRole ==
  /\ pc = "turn"
  /\ purple_agent_role \notin DOMAIN req.participants
  /\ transcript' = Record(transcript, PromptLine(prompt))
  /\ Raise("KeyError")
  /\ UNCHANGED << posVars, inputVars, loopVars, chainVars, totalVars, endVars,
                  status, sent, received, qa_calls >>
  /\ UNCHANGED << taskVars, execVars, error_message >>

\* ------------------------------------------------------------------------
\* run_eval.send_feedback and the scoring of the instruction (lines 59-68,
\* 96-106)
\* ------------------------------------------------------------------------
\* lines 97-99
ScoredCount(sc, er) == IF er.num_correct # None THEN sc + 1 ELSE sc
NumCorrect(nc, er) == IF er.num_correct # None THEN nc + er.num_correct[1] ELSE nc
\* line 100 with = in place of +=
QuestionsCountOverwritten(qc, rqc) == rqc

\* line 100
QuestionsCount(qc, rqc) == qc + rqc

\* lines 101-106; prompts and responses are the speaker's chain lists
ResultEntry ==
  [prompts |-> speaker_idx,
   responses |-> speaker_idx,
   eval_feedback_message |-> eval_result.message,
   num_correct |-> eval_result.num_correct,
   num_questions |-> round_questions_count,
   response_feedback |-> None]

\* lines 59-68, 96: the feedback is sent; what the builder replies to it is
\* bound to a local of send_feedback and dropped
SendFeedback ==
  /\ pc = "feedback"
  /\ LET message == FeedbackMessage(eval_result) IN
       /\ transcript' = Record(transcript, PromptLine(message))
       /\ sent' = Append(sent, Call("send_feedback", message))
       /\ status' = Append(status, message)
  /\ pc' = "score"
  /\ UNCHANGED << error, posVars, inputVars, loopVars, chainVars, totalVars,
                  endVars, received, qa_calls >>
  /\ UNCHANGED << taskVars, execVars, error_message >>

\* lines 97-106 with the loop of line 80 passing over the next instruction
ScoreInstructionSkipsNext ==
  /\ pc = "score"
  /\ scored_count' = ScoredCount(scored_count, eval_result)
  /\ num_correct' = NumCorrect(num_correct, eval_result)
  /\ questions_count' = QuestionsCount(questions_count, round_questions_count)
  /\ results' = [r \in DOMAIN results \cup {CurrentInstruction.round} |->
                   IF r = CurrentInstruction.round THEN ResultEntry ELSE results[r]]
  /\ instr_idx' = instr_idx + 2
  /\ pc' = "for_instruction"
  /\ UNCHANGED << error, speaker_idx, inputVars, loopVars, chainVars, endVars,
                  ioVars >>
  /\ UNCHANGED << taskVars, execVars, error_message >>

\* lines 97-106: the instruction is scored and its result is stored
ScoreInstruction ==
  /\ pc = "score"
  /\ scored_count' = ScoredCount(scored_count, eval_result)
  /\ num_correct' = NumCorrect(num_correct, eval_result)
  /\ questions_count' = QuestionsCount(questions_count, round_questions_count)
  /\ results' = [r \in DOMAIN results \cup {CurrentInstruction.round} |->
                   IF r = CurrentInstruction.round THEN ResultEntry ELSE results[r]]
  /\ instr_idx' = instr_idx + 1
  /\ pc' = "for_instruction"
  /\ UNCHANGED << error, speaker_idx, inputVars, loopVars, chainVars, endVars,
                  ioVars >>
  /\ UNCHANGED << taskVars, execVars, error_message >>

\* talk_to_agent raises in send_feedback
SendFeedbackTransportFailure ==
  /\ pc = "feedback"
  /\ LET message == FeedbackMessage(eval_result) IN
       /\ transcript' = Record(transcript, PromptLine(message))
       /\ sent' = Append(sent, Call("send_feedback", message))
  /\ CallFailure("TransportError")
  /\ UNCHANGED << posVars, inputVars, loopVars, chainVars, totalVars, endVars,
                  status, received, qa_calls >>
  /\ UNCHANGED << taskVars, execVars, error_message >>

\* ------------------------------------------------------------------------
\* The metrics and the result (lines 109-122)
\* ------------------------------------------------------------------------
\* line 110: len(trials["instructions_A"] + trials["instructions_B"])
TotalInstructions(t) == Len(t.instructions_A \o t.instructions_B)

\* lines 109-110
ComputeMetrics ==
  /\ pc = "metrics"
  /\ accuracy' = Accuracy(num_correct, scored_count)
  /\ LET q == TrueDiv(questions_count, TotalInstructions(trials)) IN
       IF Raises(q)
       THEN /\ Raise(q.raises)
            /\ UNCHANGED avg_questions_per_instruction
       ELSE /\ avg_questions_per_instruction' = q
            /\ pc' = "emit"
            /\ UNCHANGED error
  /\ UNCHANGED << posVars, inputVars, loopVars, chainVars, totalVars, result,
                  artifacts, resets, ioVars >>
  /\ UNCHANGED << taskVars, execVars, error_message >>

\* line 113: the keywords EvalResult is called with
ResultKwargs ==
  [accuracy |-> accuracy,
   avg_questions_per_instruction |-> avg_questions_per_instruction]

\* lines 112-122: try: build the result and add the artifact; finally: reset
EmitResult ==
  /\ pc = "emit"
  /\ IF EvalResultValid(ResultKwargs)
     THEN /\ result' = EvalResult(ResultKwargs)
          /\ artifacts' = Append(artifacts, [name |-> "Result", text |-> result'])
          /\ pc' = "returned"
          /\ UNCHANGED error
     ELSE /\ Raise("ValidationError")
          /\ UNCHANGED << result, artifacts >>
  /\ resets' = resets + 1
  /\ UNCHANGED << posVars, inputVars, loopVars, chainVars, totalVars, accuracy,
                  avg_questions_per_instruction, ioVars >>
  /\ UNCHANGED << taskVars, execVars, error_message >>

\* ------------------------------------------------------------------------
\* evaluator_proxy.py: the end of GreenExecutor.execute (lines 83-89)
\* ------------------------------------------------------------------------
\* str(e) of the exception run_eval raised
StrOfError == Text("{e}", <<error, error_message>>)

\* line 87
AgentErrorMessage == Text("Agent error: {e}", <<error, error_message>>)

\* lines 83-89 with updater.complete() in a finally clause
ExecuteEndCompletesAlways ==
  /\ pc \in {"returned", "raised"}
  /\ updater_calls = <<>>
  /\ execute_error = None
  /\ IF pc = "returned"
     THEN /\ updater_calls' = <<[state |-> "completed", message |-> NoText]>>
          /\ UNCHANGED execute_error
     ELSE /\ updater_calls' =
               <<[state |-> "failed", message |-> AgentErrorMessage],
                 [state |-> "completed", message |-> NoText]>>
          /\ execute_error' =
               Some([error |-> "InternalError", message |-> StrOfError])
  /\ UNCHANGED << pc, error, error_message, posVars, inputVars, loopVars,
                  chainVars, totalVars, endVars, ioVars, taskVars >>

\* lines 83-89: run_eval returned and the task is completed, or run_eval
\* raised, the task is failed and execute raises ServerError(InternalError)
ExecuteEnd ==
  /\ pc \in {"returned", "raised"}
  /\ updater_calls = <<>>
  /\ execute_error = None
  /\ IF pc = "returned"
     THEN /\ updater_calls' = <<[state |-> "completed", message |-> NoText]>>
          /\ UNCHANGED execute_error
     ELSE /\ updater_calls' =
               <<[state |-> "failed", message |-> AgentErrorMessage]>>
          /\ execute_error' =
               Some([error |-> "InternalError", message |-> StrOfError])
  /\ UNCHANGED << pc, error, error_message, posVars, inputVars, loopVars,
                  chainVars, totalVars, endVars, ioVars, taskVars >>

Next ==
  \/ RunEval
  \/ EnterSpeaker
  \/ LeaveSpeakers
  \/ BeginInstruction
  \/ LeaveSpeaker
  \/ TurnBuild
  \/ TurnAsk
  \/ TurnAskQAFailure
  \/ TurnInvalid
  \/ TurnTransportFailure
  \/ TurnMissingRole
  \/ SendFeedback
  \/ SendFeedbackTransportFailure
  \/ ScoreInstruction
  \/ ComputeMetrics
  \/ EmitResult
  \/ ExecuteEnd

Spec == Init /\ [][Next]_vars

\* the steps of run_eval other than the call of the builder in turn, and the
\* end of execute
Steps ==
  \/ RunEval
  \/ EnterSpeaker
  \/ LeaveSpeakers
  \/ BeginInstruction
  \/ LeaveSpeaker
  \/ TurnMissingRole
  \/ SendFeedback
  \/ SendFeedbackTransportFailure
  \/ ScoreInstruction
  \/ ComputeMetrics
  \/ EmitResult
  \/ ExecuteEnd

\* line 50: the call of the builder in turn is made; the steps of Next that
\* make it are TurnBuild, TurnAsk, TurnAskQAFailure, TurnInvalid and
\* TurnTransportFailure
TurnCall ==
  /\ pc = "turn"
  /\ purple_agent_role \in DOMAIN req.participants
  /\ sent' = Append(sent, Call("turn", prompt))

\* run_eval is one coroutine that the event loop drives on: whenever it can
\* take a step it takes one, and a call it awaits comes back, with a reply
\* or with an exception
SpecLive == Init /\ [][Next]_vars /\ WF_vars(Steps) /\ WF_sent(TurnCall)


\* ------------------------------------------------------------------------
\* eval_message on its own: one call on a reply and a target drawn from
\* bounded sets
\* ------------------------------------------------------------------------
Coords050 == <<",","0",",","5","0",",","0">>

\* ';'-separated entries of replies and targets
EvalEntries ==
  { <<"r","e","d">> \o Coords050,                          \* "red,0,50,0"
    <<" ","r","E","D"," ",","," ","0",",","5","0",",","0"," ">>,  \* " rED , 0,50,0 "
    <<"b","l","u","e",",","1",",","5","0",",","0">>,       \* "blue,1,50,0"
    <<>>,                                                  \* ""
    <<"R","e","d",",","0",",","5","0">> }                  \* "Red,0,50"

\* first fields of replies
EvalTags ==
  { BUILD, ASK,
    <<"[","F","O","O","]">>,
    <<" ">> \o BUILD,
    <<>> }

EvalReplies ==
  { Join(<<tag>> \o es, <<";">>) :
      tag \in EvalTags, es \in SeqsUpTo(EvalEntries, MaxEntries) }

EvalTargets ==
  { Join(es, <<";">>) : es \in SeqsUpTo(EvalEntries, MaxTargetEntries) }

InitEval ==
  /\ Constructed
  /\ NoTask
  /\ recorder = FALSE
  /\ pc = "eval_message"
  /\ \E target \in EvalTargets :
       trials = Trials(<<[trial_id |-> "1", start_structure |-> "",
                          instruction |-> "sentence 1",
                          target_structure |-> target]>>, <<>>)
  /\ instruction_response \in EvalReplies

\* await self.eval_message(instruction_response, instruction["target_structure"])
EvalMessageCall ==
  /\ pc = "eval_message"
  /\ \E answer \in IF qa THEN QAAnswers ELSE {None} :
       LET r == eval_message(instruction_response,
                             CurrentInstruction.target_structure, qa, answer)
       IN  IF Raises(r)
           THEN /\ Raise(r.raises)
                /\ error_message' = r.message
                /\ UNCHANGED eval_result
           ELSE /\ eval_result' = r
                /\ pc' = "evaluated"
                /\ UNCHANGED << error, error_message >>
  /\ content' = IF MatchAction(ActionOf(instruction_response)) = "[ASK]"
                THEN AskContent(Split(instruction_response, ";"))
                ELSE content
  /\ UNCHANGED << posVars, inputVars, chainVars, totalVars, endVars, ioVars,
                  round_questions_count, prompt, built, instruction_response >>
  /\ UNCHANGED << taskVars, execVars >>

NextEval == EvalMessageCall

SpecEval == InitEval /\ [][NextEval]_vars


\* ------------------------------------------------------------------------
\* building_task.py: BuildingGameTask
\* ------------------------------------------------------------------------
\* bounds on the rows of the two CSV files
MaxRows1 == 2
MaxRows2 == 1

\* lines 19-24
LisaOrdering ==
  << "fully_spec", "fully_spec", "critical_a", "critical_b", "fully_spec",
     "critical_a", "critical_a", "fully_spec", "critical_b", "critical_a",
     "critical_b", "fully_spec", "critical_a", "fully_spec", "critical_a",
     "fully_spec", "critical_a", "fully_spec", "critical_b", "critical_a" >>
\* lines 25-30
PiaOrdering ==
  << "fully_spec", "fully_spec", "critical", "critical", "fully_spec",
     "critical", "critical", "fully_spec", "critical", "critical",
     "fully_spec", "critical", "critical", "critical", "fully_spec",
     "critical", "critical", "fully_spec", "critical", "fully_spec" >>

\* a row csv.DictReader yields (lines 32-36); trialNumber is text the code
\* takes apart, so it is a sequence of characters
CsvRow(trialNumber, trialType) ==
  [trialNumber |-> trialNumber,
   trialType |-> trialType,
   startStructure |-> "",
   sentenceW |-> "sentence",
   targetStructure |-> TargetRed]

\* the rows the datasets of this model are made of
CsvRows ==
  { CsvRow(<<"1">>, "fully_spec"),
    CsvRow(<<"5","a">>, "fully_spec"),
    CsvRow(<<"2","a">>, "color_under"),
    CsvRow(<<"2","b">>, "color_under"),
    CsvRow(<<"3">>, "number_under"),
    CsvRow(<<"4","b">>, "number_under") }

\* lines 45-50: the first row with that trialNumber, or None
_get_instruction_data(trial_number, data) ==
  LET hits == {i \in 1..Len(data) : data[i].trialNumber = trial_number}
  IN  IF hits = {} THEN None
      ELSE Some(data[CHOOSE i \in hits : \A j \in hits : i <= j])

\* lines 65-68
BaseNum(trial_num) ==
  IF Last(trial_num) \in {"a", "b"}
  THEN SubSeq(trial_num, 1, Len(trial_num) - 1)
  ELSE trial_num

\* the loop over the rows with one set of seen base numbers per trial type
RECURSIVE CategorizeFromPerType(_, _, _, _)
CategorizeFromPerType(data, i, seen_base_numbers, categories) ==
  IF i > Len(data) THEN categories
  ELSE LET base_num == BaseNum(data[i].trialNumber)
           trial_type == data[i].trialType
       IN  IF <<trial_type, base_num>> \in seen_base_numbers
           THEN CategorizeFromPerType(data, i + 1, seen_base_numbers, categories)
           ELSE CategorizeFromPerType(data, i + 1,
                  seen_base_numbers \cup {<<trial_type, base_num>>},
                  IF trial_type \in DOMAIN categories
                  THEN [categories EXCEPT ![trial_type] = Append(@, base_num)]
                  ELSE categories)

\* lines 62-82: the loop over the rows, from row i on
RECURSIVE CategorizeFrom(_, _, _, _)
CategorizeFrom(data, i, seen_base_numbers, categories) ==
  IF i > Len(data) THEN categories
  ELSE LET base_num == BaseNum(data[i].trialNumber)
           trial_type == data[i].trialType
       IN  IF base_num \in seen_base_numbers
           THEN CategorizeFrom(data, i + 1, seen_base_numbers, categories)
           ELSE CategorizeFrom(data, i + 1, seen_base_numbers \cup {base_num},
                  IF trial_type \in DOMAIN categories
                  THEN [categories EXCEPT ![trial_type] = Append(@, base_num)]
                  ELSE categories)

\* lines 52-84
_categorize_trials(data) ==
  CategorizeFrom(data, 1, {},
    [fully_spec |-> <<>>, color_under |-> <<>>, number_under |-> <<>>])

\* lines 101, 105, 139: self.list1_data if list_id == 1 else self.list2_data
ListData(list_id) == IF list_id = 1 THEN list1_data ELSE list2_data

\* line 97 with the second speaker the same as the first
SameSpeaker(speaker) == speaker

\* line 97
OtherSpeaker(speaker) == IF speaker = "Pia" THEN "Lisa" ELSE "Pia"

\* lines 112, 116 with the second speaker on the same list as the first
SameList(list_id) == list_id

\* lines 112, 116: 2 if fully_spec_list == 1 else 1
OtherList(list_id) == IF list_id = 1 THEN 2 ELSE 1

\* lines 108-128: the four pools before they are shuffled
Pools(fully_spec_list, underspec_list) ==
  LET fully_spec_categories == _categorize_trials(ListData(fully_spec_list))
      underspec_categories == _categorize_trials(ListData(underspec_list))
      other_fully_spec_categories ==
        _categorize_trials(ListData(OtherList(fully_spec_list)))
      other_underspec_categories ==
        _categorize_trials(ListData(OtherList(underspec_list)))
  IN  [first_fully_spec_pool |-> fully_spec_categories.fully_spec,
       first_critical_pool |->
         underspec_categories.color_under \o underspec_categories.number_under,
       second_fully_spec_pool |-> other_fully_spec_categories.fully_spec,
       second_critical_pool |->
         other_underspec_categories.color_under
           \o other_underspec_categories.number_under]

\* the orders rng.shuffle can leave a list of n elements in
ShuffleOrders(n) ==
  {p \in [1..n -> 1..n] : \A i, j \in 1..n : p[i] = p[j] => i = j}

Shuffled(pool, p) == [i \in 1..Len(pool) |-> pool[p[i]]]

\* what self.rng can yield in one run: the three choices of lines 96, 100,
\* 104 and the four shuffles of lines 131-134
Outcomes ==
  UNION { UNION {
    { [first_speaker |-> s, fully_spec_list |-> f, underspec_list |-> u,
       shuffles |-> <<p1, p2, p3, p4>>] :
        s \in {"Pia", "Lisa"},
        p1 \in ShuffleOrders(Len(Pools(f, u).first_fully_spec_pool)),
        p2 \in ShuffleOrders(Len(Pools(f, u).first_critical_pool)),
        p3 \in ShuffleOrders(Len(Pools(f, u).second_fully_spec_pool)),
        p4 \in ShuffleOrders(Len(Pools(f, u).second_critical_pool)) } :
    u \in {1, 2} } : f \in {1, 2} }

\* lines 131-134: the pools as the walk of the templates reads them
ShuffledPools(o) ==
  LET pools == Pools(o.fully_spec_list, o.underspec_list)
  IN  [first_fully_spec_pool |-> Shuffled(pools.first_fully_spec_pool, o.shuffles[1]),
       first_critical_pool |-> Shuffled(pools.first_critical_pool, o.shuffles[2]),
       second_fully_spec_pool |-> Shuffled(pools.second_fully_spec_pool, o.shuffles[3]),
       second_critical_pool |-> Shuffled(pools.second_critical_pool, o.shuffles[4])]

\* lines 137-163; version is '' (<<>>), 'a' or 'b'
create_instruction_with_version(trial_base, speaker, list_id, version) ==
  LET data == ListData(list_id)
      versioned ==
        IF version # <<>>
        THEN _get_instruction_data(trial_base \o version, data)
        ELSE _get_instruction_data(trial_base, data)
      trial_data ==
        IF versioned = None /\ version # <<>>
        THEN _get_instruction_data(trial_base, data)
        ELSE versioned
  IN  IF trial_data = None THEN None
      ELSE Some([speaker |-> speaker,
                 start_structure |-> trial_data[1].startStructure,
                 instruction |-> trial_data[1].sentenceW,
                 trial_id |-> trial_data[1].trialNumber,
                 list_id |-> list_id,
                 target_structure |-> trial_data[1].targetStructure,
                 trial_type |-> trial_data[1].trialType])

\* line 171
OrderingOf(speaker) == IF speaker = "Lisa" THEN LisaOrdering ELSE PiaOrdering

\* lines 170-174: the locals of generate_instructions_for_speaker
WalkStart == [instructions |-> <<>>, fully_spec_idx |-> 0, critical_idx |-> 0]

\* lines 181, 191, 201, 211: the version a slot asks for
VersionOf(order_item) ==
  CASE order_item = "fully_spec" -> <<>>
    [] order_item = "critical" -> <<"a">>
    [] order_item = "critical_a" -> <<"a">>
    [] order_item = "critical_b" -> <<"b">>

\* one slot whose index advances only when an instruction is emitted
WalkSlotStuck(w, order_item, g) ==
  LET fs == order_item = "fully_spec"
      pool == IF fs THEN g.fully_spec_pool ELSE g.critical_pool
      idx == IF fs THEN w.fully_spec_idx ELSE w.critical_idx
  IN  IF idx < Len(pool)
      THEN LET instr == create_instruction_with_version(pool[idx + 1], g.speaker,
                          IF fs THEN g.fully_spec_list_id ELSE g.critical_list_id,
                          VersionOf(order_item))
           IN  IF instr = None THEN w
               ELSE [instructions |-> Append(w.instructions, instr[1]),
                     fully_spec_idx |-> IF fs THEN idx + 1 ELSE w.fully_spec_idx,
                     critical_idx |-> IF fs THEN w.critical_idx ELSE idx + 1]
      ELSE w

\* one slot whose index never advances: every slot takes the first base
WalkSlotReuses(w, order_item, g) ==
  LET fs == order_item = "fully_spec"
      pool == IF fs THEN g.fully_spec_pool ELSE g.critical_pool
  IN  IF pool # <<>>
      THEN LET instr == create_instruction_with_version(pool[1], g.speaker,
                          IF fs THEN g.fully_spec_list_id ELSE g.critical_list_id,
                          VersionOf(order_item))
           IN  [instructions |-> IF instr # None
                                 THEN Append(w.instructions, instr[1])
                                 ELSE w.instructions,
                fully_spec_idx |-> w.fully_spec_idx,
                critical_idx |-> w.critical_idx]
      ELSE w

\* lines 176-214: the body of the loop for one slot of the template; g holds
\* the arguments of generate_instructions_for_speaker
WalkSlot(w, order_item, g) ==
  IF order_item = "fully_spec"
  THEN IF w.fully_spec_idx < Len(g.fully_spec_pool)
       THEN LET trial_base == g.fully_spec_pool[w.fully_spec_idx + 1]
                instr == create_instruction_with_version(trial_base, g.speaker,
                           g.fully_spec_list_id, <<>>)
            IN  [instructions |-> IF instr # None
                                  THEN Append(w.instructions, instr[1])
                                  ELSE w.instructions,
                 fully_spec_idx |-> w.fully_spec_idx + 1,
                 critical_idx |-> w.critical_idx]
       ELSE w
  ELSE IF order_item \in {"critical", "critical_a", "critical_b"}
  THEN IF w.critical_idx < Len(g.critical_pool)
       THEN LET trial_base == g.critical_pool[w.critical_idx + 1]
                instr == create_instruction_with_version(trial_base, g.speaker,
                           g.critical_list_id, VersionOf(order_item))
            IN  [instructions |-> IF instr # None
                                  THEN Append(w.instructions, instr[1])
                                  ELSE w.instructions,
                 fully_spec_idx |-> w.fully_spec_idx,
                 critical_idx |-> w.critical_idx + 1]
       ELSE w
  ELSE w

\* the locals after the first k slots of the template
RECURSIVE WalkPrefix(_, _)
WalkPrefix(g, k) ==
  IF k = 0 THEN WalkStart
  ELSE WalkSlot(WalkPrefix(g, k - 1), OrderingOf(g.speaker)[k], g)

\* lines 166-216
generate_instructions_for_speaker(speaker, fully_spec_pool, critical_pool, fully_spec_list_id, critical_list_id) ==
  LET g == [speaker |-> speaker,
            fully_spec_pool |-> fully_spec_pool,
            critical_pool |-> critical_pool,
            fully_spec_list_id |-> fully_spec_list_id,
            critical_list_id |-> critical_list_id]
  IN  WalkPrefix(g, Len(OrderingOf(speaker))).instructions

\* lines 239-243 with both lists numbered from 1
NumberRoundsRestart(instructions, offset) ==
  [i \in 1..Len(instructions) |->
     [speaker |-> instructions[i].speaker,
      start_structure |-> instructions[i].start_structure,
      instruction |-> instructions[i].instruction,
      trial_id |-> instructions[i].trial_id,
      list_id |-> instructions[i].list_id,
      target_structure |-> instructions[i].target_structure,
      trial_type |-> instructions[i].trial_type,
      round |-> i]]

\* lines 239-243: instr['round'] = i + 1, or i + len(instructions_A) + 1
\* (i counts from 0 there, from 1 here)
NumberRounds(instructions, offset) ==
  [i \in 1..Len(instructions) |->
     [speaker |-> instructions[i].speaker,
      start_structure |-> instructions[i].start_structure,
      instruction |-> instructions[i].instruction,
      trial_id |-> instructions[i].trial_id,
      list_id |-> instructions[i].list_id,
      target_structure |-> instructions[i].target_structure,
      trial_type |-> instructions[i].trial_type,
      round |-> i + offset]]

\* lines 219-236: the arguments of the two generate_instructions_for_speaker
\* calls; the first speaker walks the first pools
FirstWalk(o) ==
  [speaker |-> o.first_speaker,
   fully_spec_pool |-> ShuffledPools(o).first_fully_spec_pool,
   critical_pool |-> ShuffledPools(o).first_critical_pool,
   fully_spec_list_id |-> o.fully_spec_list,
   critical_list_id |-> o.underspec_list]
SecondWalk(o) ==
  [speaker |-> OtherSpeaker(o.first_speaker),
   fully_spec_pool |-> ShuffledPools(o).second_fully_spec_pool,
   critical_pool |-> ShuffledPools(o).second_critical_pool,
   fully_spec_list_id |-> OtherList(o.fully_spec_list),
   critical_list_id |-> OtherList(o.underspec_list)]

\* lines 86-266: run, given what self.rng yields
run(o) ==
  LET a == FirstWalk(o)
      b == SecondWalk(o)
      instructions_A ==
        generate_instructions_for_speaker(a.speaker, a.fully_spec_pool,
          a.critical_pool, a.fully_spec_list_id, a.critical_list_id)
      instructions_B ==
        generate_instructions_for_speaker(b.speaker, b.fully_spec_pool,
          b.critical_pool, b.fully_spec_list_id, b.critical_list_id)
  IN  [type |-> "building_game",
       grid_context |-> GridContext,
       chosen_list |-> "mixed",
       first_speaker |-> o.first_speaker,
       second_speaker |-> OtherSpeaker(o.first_speaker),
       instructions_A |-> NumberRounds(instructions_A, 0),
       instructions_B |-> NumberRounds(instructions_B, Len(instructions_A))]

\* line 16 with the seed ignored: random.Random()
RngUnseeded(t) == None

\* line 16: self.rng = random.Random(seed)
RngSeed(t) == seed[t]

\* what a generator built with seed s yields: the values random.Random(s)
\* yields are fixed by s, and a generator built without a seed draws on the
\* system's entropy
Yields(s) ==
  IF s = None THEN Outcomes
  ELSE IF mt[s[1]] = None THEN Outcomes
  ELSE {mt[s[1]][1]}

\* BuildingGameTask(list1_path, list2_path, seed).run(None), on the task's
\* first call of run
TaskRun ==
  /\ pc = "task"
  /\ \E t \in DOMAIN seed :
       /\ returned[t] = None
       /\ \E o \in Yields(RngSeed(t)) :
            /\ rng_draws' = [rng_draws EXCEPT ![t] = Some(o)]
            /\ returned' = [returned EXCEPT ![t] = Some(run(o))]
            /\ mt' = IF RngSeed(t) = None THEN mt
                     ELSE [mt EXCEPT ![RngSeed(t)[1]] = Some(o)]
  /\ UNCHANGED << list1_data, list2_data, seed, categorized, generated,
                  execVars, error_message,
                  pc, error, inputVars, posVars, loopVars, totalVars, endVars,
                  ioVars, chainVars >>

NextTask == TaskRun

\* the datasets of one run: the rows of a CSV file are distinct
Datasets ==
  /\ list1_data \in InjectiveSeqsUpTo(CsvRows, MaxRows1)
  /\ list2_data \in InjectiveSeqsUpTo(CsvRows, MaxRows2)

\* one task built as run_eval builds it (green_agent.py line 42): no seed
InitTask ==
  /\ Constructed
  /\ qa = FALSE
  /\ recorder = FALSE
  /\ pc = "task"
  /\ trials = Trials(<<>>, <<>>)
  /\ instruction_response = <<>>
  /\ Datasets
  /\ seed = <<None>>
  /\ mt = [s \in SeedValues |-> None]
  /\ rng_draws = <<None>>
  /\ returned = <<None>>
  /\ categorized = None
  /\ generated = None

SpecTask == InitTask /\ [][NextTask]_vars

\* two tasks built from the same datasets and the same seed
InitTwin ==
  /\ Constructed
  /\ qa = FALSE
  /\ recorder = FALSE
  /\ pc = "task"
  /\ trials = Trials(<<>>, <<>>)
  /\ instruction_response = <<>>
  /\ Datasets
  /\ \E s \in SeedValues : seed = <<Some(s), Some(s)>>
  /\ mt = [s \in SeedValues |-> None]
  /\ rng_draws = <<None, None>>
  /\ returned = <<None, None>>
  /\ categorized = None
  /\ generated = None

SpecTwin == InitTwin /\ [][NextTask]_vars

\* bound on the rows of a dataset handed to _categorize_trials alone
MaxRowsCat == 3

\* rows for _categorize_trials alone: a base with rows of two trial types
\* ("1" and "1a"), a base with two versions of one type ("2a", "2b"), a
\* trial number that ends in two suffix letters ("3ab", whose base is "3a"
\* and not "3"), and a row whose trialType is none of the three
CatRows ==
  { CsvRow(<<"1">>, "fully_spec"),
    CsvRow(<<"1","a">>, "color_under"),
    CsvRow(<<"2","a">>, "color_under"),
    CsvRow(<<"2","b">>, "color_under"),
    CsvRow(<<"3">>, "number_under"),
    CsvRow(<<"3","a","b">>, "number_under"),
    CsvRow(<<"4">>, "practice") }

\* self._categorize_trials(self.list1_data), as run calls it at lines 100-101
CategorizeTrials ==
  /\ pc = "categorize"
  /\ categorized = None
  /\ categorized' = Some(_categorize_trials(list1_data))
  /\ UNCHANGED << list1_data, list2_data, seed, mt, rng_draws, returned,
                  generated, execVars, error_message, pc, error, inputVars,
                  posVars,
                  loopVars, totalVars, endVars, ioVars, chainVars >>

NextCat == CategorizeTrials

\* a task whose first dataset is any sequence of distinct rows
InitCat ==
  /\ Constructed
  /\ qa = FALSE
  /\ recorder = FALSE
  /\ pc = "categorize"
  /\ trials = Trials(<<>>, <<>>)
  /\ instruction_response = <<>>
  /\ list1_data \in InjectiveSeqsUpTo(CatRows, MaxRowsCat)
  /\ list2_data = <<>>
  /\ seed = <<None>>
  /\ mt = [s \in SeedValues |-> None]
  /\ rng_draws = <<None>>
  /\ returned = <<None>>
  /\ categorized = None
  /\ generated = None

SpecCat == InitCat /\ [][NextCat]_vars

\* ------------------------------------------------------------------------
\* generate_instructions_for_speaker on pools longer than the templates
\* ------------------------------------------------------------------------
\* bounds on the fully_spec and on the critical base numbers of a dataset
MaxPoolFs == 9
MaxPoolCrit == 13

Digits == <<"0","1","2","3","4","5","6","7","8","9">>

\* str(n) for 0 <= n < 100
Numeral(n) ==
  IF n < 10 THEN <<Digits[n + 1]>>
  ELSE <<Digits[(n \div 10) + 1], Digits[(n % 10) + 1]>>

\* the fully_spec rows of a dataset with nf fully_spec base numbers 1..nf:
\* one unsuffixed row each, but the last base number of the largest dataset
\* has an 'a' row only
FsRows(nf) ==
  [i \in 1..nf |->
     CsvRow(IF i = MaxPoolFs THEN Numeral(i) \o <<"a">> ELSE Numeral(i),
            "fully_spec")]

\* the rows of critical base number 20 + j: an 'a' row only, an unsuffixed
\* row, or an 'a' and a 'b' row; the last base number of the largest dataset
\* has a 'b' row only
CritRowsOf(j) ==
  LET base == Numeral(20 + j)
      type == IF j % 2 = 1 THEN "color_under" ELSE "number_under"
  IN  IF j = MaxPoolCrit THEN <<CsvRow(base \o <<"b">>, type)>>
      ELSE IF j % 6 = 4 THEN <<CsvRow(base \o <<"a">>, type)>>
      ELSE IF j % 6 = 2 THEN <<CsvRow(base, type)>>
      ELSE <<CsvRow(base \o <<"a">>, type), CsvRow(base \o <<"b">>, type)>>

RECURSIVE CritRows(_)
CritRows(nc) == IF nc = 0 THEN <<>> ELSE CritRows(nc - 1) \o CritRowsOf(nc)

\* the two orders a pool is walked in here: as categorized, and reversed
PoolOrders == {"listed", "reversed"}
Ordered(pool, order) ==
  IF order = "listed" THEN pool
  ELSE [i \in 1..Len(pool) |-> pool[Len(pool) + 1 - i]]

\* run's pools for a speaker whose two categories come from list 1 (lines
\* 108-109, 131-132), and the call of line 219
GenerateInstructions ==
  /\ pc = "generate"
  /\ generated = None
  /\ \E speaker \in {"Pia", "Lisa"}, order \in PoolOrders :
       LET categories == _categorize_trials(list1_data)
           fully_spec_pool == Ordered(categories.fully_spec, order)
           critical_pool ==
             Ordered(categories.color_under \o categories.number_under, order)
       IN  generated' =
             Some([speaker |-> speaker,
                   fully_spec_pool |-> fully_spec_pool,
                   critical_pool |-> critical_pool,
                   instructions |->
                     generate_instructions_for_speaker(speaker, fully_spec_pool,
                       critical_pool, 1, 1)])
  /\ UNCHANGED << list1_data, list2_data, seed, mt, rng_draws, returned,
                  categorized, execVars, error_message, pc, error, inputVars,
                  posVars,
                  loopVars, totalVars, endVars, ioVars, chainVars >>

NextWalk == GenerateInstructions

\* a task whose first dataset holds up to MaxPoolFs fully_spec and up to
\* MaxPoolCrit critical base numbers
InitWalk ==
  /\ Constructed
  /\ qa = FALSE
  /\ recorder = FALSE
  /\ pc = "generate"
  /\ trials = Trials(<<>>, <<>>)
  /\ instruction_response = <<>>
  /\ \E nf \in 0..MaxPoolFs, nc \in 0..MaxPoolCrit :
       list1_data = FsRows(nf) \o CritRows(nc)
  /\ list2_data = <<>>
  /\ seed = <<None>>
  /\ mt = [s \in SeedValues |-> None]
  /\ rng_draws = <<None>>
  /\ returned = <<None>>
  /\ categorized = None
  /\ generated = None

SpecWalk == InitWalk /\ [][NextWalk]_vars


\* ------------------------------------------------------------------------
\* Properties
\* ------------------------------------------------------------------------
\* run_eval is over: it returned or raised
Terminated == pc \in {"returned", "raised"}

\* the replies received for round r, in order
RepliesOf(r) ==
  LET idx == {i \in 1..Len(received) : received[i].round = r}
  IN  {received[i].response : i \in idx}

\* the first ';'-separated field of a reply, taken character by character
RECURSIVE TagOf(_)
TagOf(response) ==
  IF response = <<>> \/ Head(response) = ";" THEN <<>>
  ELSE <<Head(response)>> \o TagOf(Tail(response))

IsBuildReply(response) == TagOf(response) = BUILD
IsAskReply(response) == TagOf(response) = ASK

\* C1: on every exit path of run_eval the messaging session reset
\* (tool_provider.reset) has been executed exactly once.
C1_ResetOnEveryExit == Terminated => resets = 1

\* the instruction in progress has had an [ASK] reply as its latest reply
AfterAsk ==
  /\ pc = "turn"
  /\ received # <<>>
  /\ Last(received).round = CurrentInstruction.round
  /\ IsAskReply(Last(received).response)

\* C2: an instruction's loop ends only on a [BUILD] reply (built = true);
\* after an [ASK] reply no feedback is sent and no other instruction is
\* started, and the next message sent to the builder is the answer, for the
\* same instruction.
C2_LoopEndsOnlyOnBuild ==
  /\ [](pc = "feedback" =>
          /\ built = TRUE
          /\ IsBuildReply(Last(received).response)
          /\ Last(received).round = CurrentInstruction.round)
  /\ [][AfterAsk =>
          /\ pc' \in {"turn", "feedback", "raised"}
          /\ UNCHANGED << speaker_idx, instr_idx >>
          /\ sent' # sent =>
               /\ Len(sent') = Len(sent) + 1
               /\ Last(sent').via = "turn"
               /\ Last(sent').round = CurrentInstruction.round
               /\ Last(sent').message = eval_result.message
               /\ Last(sent').message.text = "Answer: {answer}"]_vars

\* an instruction that was asked about and then built is about to get its
\* feedback
C2_Witness ==
  /\ pc = "feedback"
  /\ round_questions_count = 1
  /\ Len(sent) >= 2
  /\ sent[Len(sent) - 1].via = "turn"
  /\ Last(sent).message.text = "Answer: {answer}"


\* the block an entry describes: (color without regard to case, x, y, z)
CommaCount(text) == Cardinality({i \in 1..Len(text) : text[i] = ","})
BlockOf(entry) ==
  LET f == Split(Strip(entry), ",")
  IN  <<Lower(Strip(f[1])), Strip(f[2]), Strip(f[3]), Strip(f[4])>>
\* the set of blocks a sequence of entries describes; an entry that is empty
\* or does not have four fields describes none
BlocksOf(entries) ==
  {BlockOf(entries[i]) :
     i \in {j \in 1..Len(entries) :
              Strip(entries[j]) # <<>> /\ CommaCount(Strip(entries[j])) = 3}}

\* C3: for every [BUILD] reply and every target, eval_message returns
\* built = true and num_questions = 0, with num_correct = 1 exactly when the
\* submitted and the target entries describe the same set of blocks (in any
\* order, with any repetition and any casing of the colors) and
\* num_correct = 0 otherwise; it raises nothing.
C3_BuildScoredBySet ==
  (pc # "eval_message" /\ IsBuildReply(instruction_response)) =>
     /\ pc = "evaluated"
     /\ error = "none"
     /\ eval_result.built = TRUE
     /\ eval_result.num_questions = 0
     /\ eval_result.num_correct =
          Some(IF BlocksOf(Tail(Split(instruction_response, ";")))
                    = BlocksOf(Split(CurrentInstruction.target_structure, ";"))
               THEN 1 ELSE 0)

\* a two-block target was matched by a reply that spells it differently
C3_Witness ==
  /\ pc = "evaluated"
  /\ IsBuildReply(instruction_response)
  /\ eval_result.num_correct = Some(1)
  /\ Cardinality(BlocksOf(Split(CurrentInstruction.target_structure, ";"))) = 2
  /\ \A i \in 1..2 :
       Split(instruction_response, ";")[i + 1]
         # Split(CurrentInstruction.target_structure, ";")[i]

\* the question of the [ASK] reply of Replies, written out
QuestionOfReplyAsk ==
  <<"w","h","i","c","h"," ","C","o","l","o","r",";","w","h","e","r","e","?">>

\* the text of a reply after its first ';', taken character by character
RECURSIVE RestOf(_)
RestOf(response) ==
  IF response = <<>> THEN <<>>
  ELSE IF Head(response) = ";" THEN Tail(response)
  ELSE RestOf(Tail(response))

\* C4 as stated: for every [ASK] reply eval_message returns
\* num_correct = None, num_questions = 1 and built = false, the question is
\* the rest of the reply rejoined on ';', and the next prompt sent for the
\* instruction is the message derived from the answer.
C4_AskOutcomeAsStated ==
  AfterAsk =>
    /\ eval_result.num_correct = None
    /\ eval_result.num_questions = 1
    /\ eval_result.built = FALSE
    /\ content = RestOf(Last(received).response)
    /\ prompt = eval_result.message
    /\ prompt.text = "Answer: {answer}"
    /\ prompt # InitialPrompt(CurrentInstruction)

\* C4 (amended): as C4, the question being the rest of the reply rejoined on
\* ';' with its leading and trailing whitespace removed.
C4_AskOutcome ==
  /\ [](AfterAsk =>
          /\ eval_result.num_correct = None
          /\ eval_result.num_questions = 1
          /\ eval_result.built = FALSE
          /\ Last(received).response = ReplyAsk => content = QuestionOfReplyAsk
          /\ content = Strip(RestOf(Last(received).response))
          /\ (qa => Last(qa_calls).question = content)
          /\ prompt = eval_result.message
          /\ prompt.text = "Answer: {answer}"
          /\ prompt # InitialPrompt(CurrentInstruction))
  /\ [][(AfterAsk /\ sent' # sent) =>
          /\ Last(sent').message = prompt
          /\ Last(sent').via = "turn"
          /\ Last(sent').round = CurrentInstruction.round]_vars

\* the answer to "[ASK]; which Color;where? " went out as the next prompt of
\* the instruction
C4_Witness ==
  /\ Len(sent) >= 2
  /\ Len(received) >= 1
  /\ received[1].response = ReplyAsk
  /\ content = QuestionOfReplyAsk
  /\ sent[2].via = "turn"
  /\ sent[2].round = sent[1].round
  /\ sent[2].message.text = "Answer: {answer}"

\* C5: a reply whose first ';'-separated field is neither [BUILD] nor [ASK]
\* makes eval_message raise the invalid-action error, which run_eval
\* propagates: nothing more is sent to the builder, no instruction is
\* started, no counter is updated and no Result artifact is emitted.
C5_InvalidActionAborts ==
  /\ [](error = "ServerError(InvalidParamsError)" =>
          /\ pc = "raised"
          /\ TagOf(Last(received).response) \notin {BUILD, ASK}
          /\ artifacts = <<>>
          /\ Last(sent).via = "turn"
          /\ Last(sent).round = Last(received).round
          /\ CurrentInstruction.round \notin DOMAIN results)
  /\ [][(pc = "turn" /\ received' # received
           /\ TagOf(Last(received').response) \notin {BUILD, ASK}) =>
          /\ pc' = "raised"
          /\ error' = "ServerError(InvalidParamsError)"
          /\ UNCHANGED << num_correct, scored_count, questions_count,
                          round_questions_count, results, speaker_idx,
                          instr_idx, artifacts >>]_vars
  /\ [][pc = "raised" =>
          UNCHANGED << pc, error, error_message, posVars, inputVars, loopVars,
                       chainVars, totalVars, endVars, ioVars, taskVars >>]_vars

\* " [BUILD];Red,0,50,0" ended the run in the second instruction
C5_Witness ==
  /\ error = "ServerError(InvalidParamsError)"
  /\ Last(received).response = ReplySpaceBuild
  /\ Last(received).round = 2
  /\ scored_count = 1


\* all instructions of the selection, instructions_A first
AllInstructions == trials.instructions_A \o trials.instructions_B

\* the positions in sent of the initial prompts of instructions
InitialPromptCalls ==
  {i \in 1..Len(sent) :
     sent[i].message.text = InitialPrompt(AllInstructions[sent[i].round]).text}

\* C6: instructions are processed one at a time in increasing round order,
\* all of instructions_A before any of instructions_B; the initial prompt of
\* an instruction is sent only after the previous instruction was built and
\* its feedback was sent; two instructions are never in progress together.
C6_StrictlySequential ==
  /\ \A i \in 1..Len(sent) :
       /\ sent[i].round \in 1..Len(AllInstructions)
       /\ i > 1 => sent[i].round \in {sent[i - 1].round, sent[i - 1].round + 1}
       /\ i > 1 /\ sent[i].round = sent[i - 1].round + 1 =>
            /\ i \in InitialPromptCalls
            /\ sent[i - 1].via = "send_feedback"
       /\ i \in InitialPromptCalls =>
            /\ sent[i].via = "turn"
            /\ sent[i].message = InitialPrompt(AllInstructions[sent[i].round])
            /\ i = 1 => sent[i].round = 1
            /\ i > 1 => /\ sent[i - 1].via = "send_feedback"
                        /\ sent[i - 1].round = sent[i].round - 1
       /\ sent[i].via = "send_feedback" =>
            \E response \in RepliesOf(sent[i].round) : IsBuildReply(response)
  /\ pc \in {"turn", "feedback", "score"} =>
       /\ CurrentInstruction = AllInstructions[CurrentInstruction.round]
       /\ sent # <<>> => Last(sent).round = CurrentInstruction.round
                           \/ /\ Last(sent).round = CurrentInstruction.round - 1
                              /\ Last(sent).via = "send_feedback"
       /\ DOMAIN results = 1..(CurrentInstruction.round - 1)
       /\ (speaker_idx = 2) = (CurrentInstruction.round > Len(trials.instructions_A))

\* the instruction of instructions_B got its initial prompt after both
\* instructions of instructions_A
C6_Witness ==
  /\ Len(trials.instructions_A) = 2
  /\ speaker_idx = 2
  /\ pc = "feedback"
  /\ Cardinality(InitialPromptCalls) = 3

\* every instruction of a non-empty selection has been built and scored
AllCompleted ==
  /\ Len(AllInstructions) > 0
  /\ DOMAIN results = 1..Len(AllInstructions)

\* C7: when every instruction has completed, run_eval emits exactly one
\* Result artifact, after the last feedback message, with the fields
\* accuracy and avg_questions_per_instruction in its payload; none is
\* emitted before.
C7_OneResultArtifact ==
  /\ ~(Terminated /\ AllCompleted) => artifacts = <<>>
  /\ (Terminated /\ AllCompleted) =>
       /\ Len(artifacts) = 1
       /\ artifacts[1].name = "Result"
       /\ {"accuracy", "avg_questions_per_instruction"} \subseteq DOMAIN artifacts[1].text

\* C8: with the builder under the key "Rita" and a builder that ends every
\* instruction with a [BUILD] reply, run_eval returns normally and the
\* returned result has status "ok".
C8_ReturnsOk ==
  ( /\ "Rita" \in DOMAIN req.participants
    /\ Terminated
    /\ Len(AllInstructions) > 0
    /\ error \notin {"TransportError", "QAError", "ServerError(InvalidParamsError)"} ) =>
      /\ pc = "returned"
      /\ result.status = "ok"

\* the pairs of Replies and targets in which the reply builds the target
BuildsTarget(response, target_structure) ==
  \/ response = ReplyBuildRed /\ target_structure = TargetRed
  \/ response = ReplyBuildRedBlue /\ target_structure = TargetRedBlue

\* the number of [ASK] replies received for round r
AsksOf(r) ==
  Cardinality({i \in 1..Len(received) :
                 received[i].round = r /\ IsAskReply(received[i].response)})

\* lines 109-110 have been executed
MetricsComputed ==
  \/ pc \in {"emit", "returned"}
  \/ pc = "raised" /\ error \in {"ZeroDivisionError", "ValidationError"}

\* C9: at metric computation num_correct is the number of instructions whose
\* final [BUILD] matched the target, scored_count the number of instructions
\* ended by a [BUILD], questions_count the number of [ASK] replies of the
\* run; the per-instruction count starts at 0 and is the number of [ASK]
\* replies of the instruction; accuracy = 100 * num_correct / scored_count
\* and avg_questions_per_instruction = questions_count / number of
\* instructions.
C9_CountersAndMetrics ==
  /\ pc \in {"turn", "feedback", "score"} =>
       round_questions_count = AsksOf(CurrentInstruction.round)
  /\ \A r \in DOMAIN results : results[r].num_questions = AsksOf(r)
  /\ (pc = "metrics" \/ MetricsComputed) =>
       /\ num_correct =
            Cardinality({r \in 1..Len(AllInstructions) :
               \E i \in 1..Len(received) :
                  /\ received[i].round = r
                  /\ \A j \in (i + 1)..Len(received) : received[j].round # r
                  /\ BuildsTarget(received[i].response,
                                  AllInstructions[r].target_structure)})
       /\ scored_count =
            Cardinality({r \in 1..Len(AllInstructions) :
               \E response \in RepliesOf(r) : IsBuildReply(response)})
       /\ questions_count =
            Cardinality({i \in 1..Len(received) : IsAskReply(received[i].response)})
  /\ (MetricsComputed /\ scored_count > 0) =>
       accuracy.num * scored_count = 100 * num_correct * accuracy.den
  /\ pc \in {"emit", "returned"} =>
       avg_questions_per_instruction.num * Len(AllInstructions)
         = questions_count * avg_questions_per_instruction.den

\* the metrics of a run with a question, a matching and a non-matching build
C9_Witness ==
  /\ pc = "emit"
  /\ Len(AllInstructions) = 3
  /\ questions_count = 2
  /\ num_correct = 1
  /\ scored_count = 3

\* C10 as stated: whenever run_eval reaches metric computation with
\* scored_count == 0, accuracy is 0 and the run raises no division-by-zero
\* fault.
C10_NoZeroDivisionAsStated ==
  (MetricsComputed /\ scored_count = 0) =>
     /\ ~Raises(accuracy)
     /\ accuracy.num = 0
     /\ error # "ZeroDivisionError"

\* C10 (amended): whenever run_eval reaches metric computation with
\* scored_count == 0, the accuracy expression yields 0 without a
\* division-by-zero fault; the selection is then empty, and the division of
\* line 110 by the number of instructions raises ZeroDivisionError.
C10_AccuracyZeroThenZeroDivision ==
  (MetricsComputed /\ scored_count = 0) =>
     /\ ~Raises(accuracy)
     /\ accuracy.num = 0
     /\ Len(AllInstructions) = 0
     /\ pc = "raised"
     /\ error = "ZeroDivisionError"
     /\ sent = <<>>

\* the metrics of an empty selection have been computed
C10_Witness ==
  /\ pc = "raised"
  /\ error = "ZeroDivisionError"
  /\ scored_count = 0
  /\ accuracy = [num |-> 0, den |-> 1]

\* ------------------------------------------------------------------------
\* Properties of BuildingGameTask.run
\* ------------------------------------------------------------------------
\* the tasks whose run has returned
Ran == {t \in DOMAIN returned : returned[t] # None}

\* the round values of a list of instructions, in list order
RoundsOf(instructions) == [i \in 1..Len(instructions) |-> instructions[i].round]

\* the number of bases in the four pools of a run
PoolSizes(o) ==
  Len(ShuffledPools(o).first_fully_spec_pool)
    + Len(ShuffledPools(o).first_critical_pool)
    + Len(ShuffledPools(o).second_fully_spec_pool)
    + Len(ShuffledPools(o).second_critical_pool)

\* C11: the round values of the instructions run returns are exactly 1..N,
\* N = len(instructions_A) + len(instructions_B): instructions_A carries
\* 1..len(instructions_A) in list order and instructions_B continues from
\* len(instructions_A) + 1, whatever the datasets and the random choices,
\* also when slots were skipped.
C11_RoundsContiguous ==
  \A t \in Ran :
    LET A == returned[t][1].instructions_A
        B == returned[t][1].instructions_B
        rounds == RoundsOf(A) \o RoundsOf(B)
    IN  /\ RoundsOf(A) = [i \in 1..Len(A) |-> i]
        /\ RoundsOf(B) = [i \in 1..Len(B) |-> Len(A) + i]
        /\ {rounds[i] : i \in 1..Len(rounds)} = 1..(Len(A) + Len(B))
        /\ \A i, j \in 1..Len(rounds) : rounds[i] = rounds[j] => i = j

\* both speakers have instructions and a slot of the walk was skipped
C11_Witness ==
  \E t \in Ran :
    /\ returned[t][1].instructions_A # <<>>
    /\ returned[t][1].instructions_B # <<>>
    /\ Len(returned[t][1].instructions_A) + Len(returned[t][1].instructions_B)
         < PoolSizes(rng_draws[t][1])

CategoryOf(instr) ==
  IF instr.trial_type = "fully_spec" THEN "fully_spec" ELSE "critical"

\* the pairs of an instruction of the first speaker and one of the second
\* speaker that are of the same category
SameCategoryPairs(t) ==
  LET A == returned[t][1].instructions_A
      B == returned[t][1].instructions_B
  IN  {p \in {<<A[i], B[j]>> : i \in 1..Len(A), j \in 1..Len(B)} :
         CategoryOf(p[1]) = CategoryOf(p[2])}

Upper(s) == [i \in 1..Len(s) |-> UpperChar(s[i])]

\* the sequences that list the elements of S once each
ListingsOf(S) ==
  {q \in [1..Cardinality(S) -> S] :
     \A i, j \in 1..Cardinality(S) : q[i] = q[j] => i = j}

\* the reorderings of a sequence
ReorderingsOf(items) ==
  {[i \in 1..Len(items) |-> items[p[i]]] : p \in ShuffleOrders(Len(items))}

\* sequences that differ from items only in the casing of letters: one item
\* or all items lower-cased, upper-cased or capitalized
RecasingsOf(items) ==
  LET Recased(f, item) ==
        CASE f = "lower" -> Lower(item)
          [] f = "upper" -> Upper(item)
          [] f = "capitalize" -> Capitalize(item)
      fs == {"lower", "upper", "capitalize"}
  IN  {[i \in 1..Len(items) |-> Recased(f, items[i])] : f \in fs}
        \cup {[i \in 1..Len(items) |->
                 IF i = k THEN Recased(f, items[i]) ELSE items[i]] :
               f \in fs, k \in 1..Len(items)}

\* the block entries of a [BUILD] reply, as eval_message passes them on
BuildItems == Tail(Split(instruction_response, ";"))

\* a [BUILD] reply has been evaluated
BuildEvaluated ==
  /\ pc = "evaluated"
  /\ ActionOf(instruction_response) = BUILD

\* C14: _normalize_structure is idempotent (normalizing the entries of an
\* already normalized set yields the same set), and its result does not
\* change when the input entries are reordered or when the letter-casing of
\* a color is changed.
C14_NormalizeIdempotentInvariant ==
  BuildEvaluated =>
    LET N == _normalize_structure(BuildItems)
    IN  /\ \A q \in ListingsOf(N) : _normalize_structure(q) = N
        /\ \A q \in ReorderingsOf(BuildItems) : _normalize_structure(q) = N
        /\ \A q \in RecasingsOf(BuildItems) : _normalize_structure(q) = N

\* a [BUILD] reply with two blocks, written with blanks and mixed casing,
\* has been evaluated
C14_Witness ==
  /\ BuildEvaluated
  /\ Cardinality(_normalize_structure(BuildItems)) = 2
  /\ \E i \in 1..Len(BuildItems) :
       /\ Lower(BuildItems[i]) # BuildItems[i]
       /\ Upper(BuildItems[i]) # BuildItems[i]
       /\ Strip(BuildItems[i]) # BuildItems[i]

\* C15: for every [BUILD] reply whose normalized blocks differ from the
\* normalized target, the outcome message eval_message returns contains both
\* the expected target structure and the received normalized structure.
C15_IncorrectMessageNamesBoth ==
  (BuildEvaluated
     /\ _normalize_structure(BuildItems)
          # _normalize_structure(Split(CurrentInstruction.target_structure, ";")))
  => LET args == eval_result.message.args
     IN  /\ \E i \in 1..Len(args) : args[i] = CurrentInstruction.target_structure
         /\ \E i \in 1..Len(args) :
              \E q \in ListingsOf(_normalize_structure(BuildItems)) :
                args[i] = Join(q, <<";">>)

\* ------------------------------------------------------------------------
\* Properties of the failures of a run
\* ------------------------------------------------------------------------
\* the request lacks a role the agent requires
LacksRequiredRole ==
  \E i \in 1..Len(_required_roles) :
    _required_roles[i] \notin DOMAIN req.participants

\* C16: a request whose participants map lacks the required builder role is
\* rejected as a configuration error before any remote interaction:
\* validation fails for it, and no prompt is sent to the builder, recorded in
\* the transcript or published on the status stream for that request.
C16_MissingRoleRejected ==
  (pc # "idle" /\ LacksRequiredRole) =>
     /\ ~validate_request(req)[1]
     /\ sent = <<>>
     /\ transcript = <<>>
     /\ status = <<>>

\* C17: if a call to the builder fails, in a turn of the loop or in the
\* feedback send, run_eval does not retry it and makes no further builder
\* call: the failure propagates out of run_eval and terminates the run.
\* (A call that returns is followed by a status update, lines 53 and 64; a
\* call that fails is not.)
C17_CallFailurePropagates ==
  /\ [][(sent' # sent /\ status' = status) =>
          /\ pc' = "raised"
          /\ error' = "TransportError"
          /\ Len(sent') = Len(sent) + 1
          /\ UNCHANGED << received, results, num_correct, scored_count,
                          questions_count, artifacts >>]_vars
  /\ [][error = "TransportError" => (sent' = sent /\ pc' = pc)]_vars
  /\ [](error = "TransportError" => (pc = "raised" /\ artifacts = <<>>))

\* the feedback send of the first instruction failed after a question had
\* been answered
C17_Witness ==
  /\ error = "TransportError"
  /\ pc = "raised"
  /\ Len(sent) = 3
  /\ sent[2].via = "turn"
  /\ sent[3].via = "send_feedback"
  /\ Len(received) = 2

\* the positions in sent of the feedback messages of round r
FeedbacksOf(r) ==
  {i \in 1..Len(sent) : sent[i].via = "send_feedback" /\ sent[i].round = r}

\* the number of turn calls among the first i calls
TurnCallsUpTo(i) == Cardinality({j \in 1..i : sent[j].via = "turn"})

\* C18: for every instruction exactly one feedback message is sent to the
\* builder, after the instruction's terminating [BUILD] reply and before the
\* next instruction's initial prompt; it carries the final BUILD outcome
\* message; the builder's reply to it is not evaluated and leaves
\* num_correct, scored_count and questions_count unchanged.
C18_OneFeedbackPerInstruction ==
  /\ [](\A r \in 1..Len(AllInstructions) :
          /\ Cardinality(FeedbacksOf(r)) <= 1
          /\ r \in DOMAIN results => Cardinality(FeedbacksOf(r)) = 1)
  /\ [](\A i \in 1..Len(sent) : sent[i].via = "send_feedback" =>
          LET k == TurnCallsUpTo(i)
              target == AllInstructions[sent[i].round].target_structure
          IN  /\ i > 1
              /\ sent[i - 1].via = "turn"
              /\ sent[i - 1].round = sent[i].round
              /\ received[k].round = sent[i].round
              /\ IsBuildReply(received[k].response)
              /\ sent[i].message =
                   Text("Feedback: {eval_result['message']}",
                        <<EvalBuild(Split(received[k].response, ";"), target).message>>)
              /\ i < Len(sent) =>
                   /\ sent[i + 1].via = "turn"
                   /\ sent[i + 1].round = sent[i].round + 1
                   /\ i + 1 \in InitialPromptCalls)
  /\ [][(sent' # sent /\ Last(sent').via = "send_feedback") =>
          UNCHANGED << num_correct, scored_count, questions_count, received,
                       eval_result, round_questions_count, results, built >>]_vars
  /\ [][pc = "score" =>
          /\ UNCHANGED << sent, received, eval_result >>
          /\ scored_count' = scored_count + 1
          /\ num_correct' = num_correct + eval_result.num_correct[1]
          /\ questions_count' = questions_count + round_questions_count]_vars

\* the two instructions of a run have had their feedback, the first after a
\* question and a build that missed the target
C18_Witness ==
  /\ DOMAIN results = {1, 2}
  /\ Cardinality(FeedbacksOf(1)) = 1
  /\ Cardinality(FeedbacksOf(2)) = 1
  /\ Len(sent) = 5
  /\ sent[3].via = "send_feedback"
  /\ results[1].num_questions = 1
  /\ results[1].num_correct = Some(0)

\* C19: the protocol error raised for an unparseable or unknown action tag
\* carries the offending reply text, so that the caller of run_eval can see
\* the text that was rejected.
C19_ErrorCarriesReply ==
  error = "ServerError(InvalidParamsError)" =>
    \E i \in 1..Len(error_message.args) :
      error_message.args[i] = instruction_response

\* ------------------------------------------------------------------------
\* Properties of the walk of a speaker's template
\* ------------------------------------------------------------------------
\* the two walks of a run: their speakers, pools and list ids
WalksOf(t) == {FirstWalk(rng_draws[t][1]), SecondWalk(rng_draws[t][1])}

\* the trial numbers of a dataset
TrialNumbersOf(data) == {data[i].trialNumber : i \in 1..Len(data)}

\* the locals of the walk g after 0, 1, ..., k slots
RECURSIVE WalkTrace(_, _)
WalkTrace(g, k) ==
  IF k = 0 THEN <<WalkStart>>
  ELSE LET trace == WalkTrace(g, k - 1)
       IN  Append(trace, WalkSlot(Last(trace), OrderingOf(g.speaker)[k], g))

\* slot k of the walk g as the claim describes it, given the locals before
\* the slot: the index of its category, the suffix it asks for and the trial
\* id it resolves to: <<id>>, or <<>> if the slot emits nothing
SlotOf(g, k, before) ==
  LET item == OrderingOf(g.speaker)[k]
      fs == item = "fully_spec"
      pool == IF fs THEN g.fully_spec_pool ELSE g.critical_pool
      idx == IF fs THEN before.fully_spec_idx ELSE before.critical_idx
      list_id == IF fs THEN g.fully_spec_list_id ELSE g.critical_list_id
      suffix == IF fs THEN <<>> ELSE IF item = "critical_b" THEN <<"b">> ELSE <<"a">>
      ids == TrialNumbersOf(ListData(list_id))
  IN  [fs |-> fs, idx |-> idx, list_id |-> list_id, suffix |-> suffix,
       exhausted |-> idx >= Len(pool),
       resolved |->
         IF idx >= Len(pool) THEN <<>>
         ELSE IF pool[idx + 1] \o suffix \in ids THEN <<pool[idx + 1] \o suffix>>
         ELSE IF pool[idx + 1] \in ids THEN <<pool[idx + 1]>>
         ELSE <<>>,
       base |-> IF idx >= Len(pool) THEN <<>> ELSE <<pool[idx + 1]>>]

\* C20: while a speaker's template is walked, a fully_spec slot resolves the
\* next base of the fully_spec pool with no suffix, a critical or critical_a
\* slot the next base of the critical pool with suffix 'a', a critical_b slot
\* with suffix 'b'; if the suffixed id is not in the dataset the unsuffixed
\* base id is used, and if that is absent too the slot emits no instruction;
\* in each of these cases the pool index of the category advances by exactly
\* one; a slot whose pool is exhausted emits nothing. The instructions run
\* returns are the ones the walks emitted, in order.
C20_SlotResolution ==
  \A t \in Ran :
    /\ \A g \in WalksOf(t) :
       \A trace \in {WalkTrace(g, Len(OrderingOf(g.speaker)))} :
       \A k \in 1..Len(OrderingOf(g.speaker)) :
         LET before == trace[k]
             after == trace[k + 1]
             s == SlotOf(g, k, before)
         IN  /\ after.fully_spec_idx =
                  before.fully_spec_idx + (IF s.fs /\ ~s.exhausted THEN 1 ELSE 0)
             /\ after.critical_idx =
                  before.critical_idx + (IF ~s.fs /\ ~s.exhausted THEN 1 ELSE 0)
             /\ IF s.resolved = <<>>
                THEN after.instructions = before.instructions
                ELSE /\ Len(after.instructions) = Len(before.instructions) + 1
                     /\ SubSeq(after.instructions, 1, Len(before.instructions))
                          = before.instructions
                     /\ Last(after.instructions).trial_id = s.resolved[1]
                     /\ Last(after.instructions).list_id = s.list_id
                     /\ Last(after.instructions).speaker = g.speaker
    /\ LET last(g) == WalkPrefix(g, Len(OrderingOf(g.speaker))).instructions
           ids(instructions) ==
             [i \in 1..Len(instructions) |->
                <<instructions[i].speaker, instructions[i].list_id,
                  instructions[i].trial_id>>]
       IN  /\ ids(returned[t][1].instructions_A)
                = ids(last(FirstWalk(rng_draws[t][1])))
           /\ ids(returned[t][1].instructions_B)
                = ids(last(SecondWalk(rng_draws[t][1])))

\* the slots of the two walks of task t
SlotsOf(t) ==
  {SlotOf(g, k, WalkPrefix(g, k - 1)) :
     g \in WalksOf(t), k \in 1..Len(LisaOrdering)}

\* in one run a critical slot resolved a suffixed id, a critical slot fell
\* back to the base id, a slot found neither and emitted nothing, a slot
\* found its pool exhausted and a fully_spec slot took a base of its pool
C20_Witness ==
  \E t \in Ran :
    /\ \E s \in SlotsOf(t) :
         ~s.fs /\ s.base # <<>> /\ s.resolved = <<s.base[1] \o s.suffix>>
    /\ \E s \in SlotsOf(t) : ~s.fs /\ s.base # <<>> /\ s.resolved = s.base
    /\ \E s \in SlotsOf(t) : ~s.exhausted /\ s.resolved = <<>>
    /\ \E s \in SlotsOf(t) : s.exhausted
    /\ \E s \in SlotsOf(t) : s.fs /\ ~s.exhausted

\* ------------------------------------------------------------------------
\* Properties of _categorize_trials
\* ------------------------------------------------------------------------
TrialTypes == {"fully_spec", "color_under", "number_under"}

\* a trial number with one trailing 'a' or 'b' removed
WithoutVersion(trial_number) ==
  IF trial_number # <<>> /\ trial_number[Len(trial_number)] \in {"a", "b"}
  THEN [i \in 1..(Len(trial_number) - 1) |-> trial_number[i]]
  ELSE trial_number

\* seq without the elements that occurred earlier in it
RECURSIVE FirstOccurrences(_)
FirstOccurrences(seq) ==
  IF seq = <<>> THEN <<>>
  ELSE LET front == FirstOccurrences(SubSeq(seq, 1, Len(seq) - 1))
       IN  IF \E i \in 1..Len(front) : front[i] = Last(seq)
           THEN front ELSE Append(front, Last(seq))

\* the rows of data at the indices in I, in order, from row i on
RECURSIVE RowsAt(_, _, _)
RowsAt(data, i, I) ==
  IF i > Len(data) THEN <<>>
  ELSE (IF i \in I THEN <<data[i]>> ELSE <<>>) \o RowsAt(data, i + 1, I)

BasesOf(rows) == [i \in 1..Len(rows) |-> WithoutVersion(rows[i].trialNumber)]

\* C21 as stated: each trial type is mapped to the distinct base numbers of
\* the rows of that type, in order of first occurrence.
C21_BasesOfRowsOfTypeAsStated ==
  categorized # None =>
    \A type \in TrialTypes :
      LET of_type == {i \in 1..Len(list1_data) : list1_data[i].trialType = type}
      IN  categorized[1][type]
            = FirstOccurrences(BasesOf(RowsAt(list1_data, 1, of_type)))

\* C21: _categorize_trials maps each trial type to the base numbers whose
\* first row in the dataset (the first row with that base number, whatever
\* its type) has that type, in the order of those rows; a later row of a base
\* number already seen is skipped even if its type differs; the base number
\* is the trial number with one trailing 'a' or 'b' removed; no base number
\* is listed twice, within a type or across the three types.
C21_BasesByFirstRow ==
  categorized # None =>
    /\ DOMAIN categorized[1] = TrialTypes
    /\ \A type \in TrialTypes :
         LET leads ==
               {i \in 1..Len(list1_data) :
                  /\ list1_data[i].trialType = type
                  /\ \A j \in 1..(i - 1) :
                       WithoutVersion(list1_data[j].trialNumber)
                         # WithoutVersion(list1_data[i].trialNumber)}
         IN  categorized[1][type] = BasesOf(RowsAt(list1_data, 1, leads))
    /\ LET listed == categorized[1].fully_spec \o categorized[1].color_under
                       \o categorized[1].number_under
       IN  \A i, j \in 1..Len(listed) : listed[i] = listed[j] => i = j

\* a dataset was categorized in which a later row of a base number already
\* seen has another of the three types, and a base number was listed
C21_Witness ==
  /\ categorized # None
  /\ \E i, j \in 1..Len(list1_data) :
       /\ i < j
       /\ WithoutVersion(list1_data[i].trialNumber)
            = WithoutVersion(list1_data[j].trialNumber)
       /\ list1_data[i].trialType # list1_data[j].trialType
       /\ list1_data[j].trialType \in TrialTypes
  /\ \E type \in TrialTypes : Len(categorized[1][type]) = 2

\* ------------------------------------------------------------------------
\* Properties of the speaker and list choices of run
\* ------------------------------------------------------------------------
\* the list a speaker's instruction of that category must come from, given
\* the list chosen for the first speaker
ListFor(instr, first, fully_spec_list, underspec_list) ==
  LET chosen == IF CategoryOf(instr) = "fully_spec"
                THEN fully_spec_list ELSE underspec_list
  IN  IF first THEN chosen ELSE 3 - chosen

OnlyAsked ==
  /\ received # <<>>
  /\ \A i \in 1..Len(received) : IsAskReply(received[i].response)

\* C23: run_eval puts no limit on the questions of an instruction: whenever
\* the last reply was an [ASK] and its answer was obtained, however many
\* [ASK] replies came before it in the instruction, the loop goes on with the
\* answer as the next prompt and no feedback for the instruction is sent; as
\* long as the builder has replied [ASK] to every prompt, run_eval is still in
\* the loop of the first instruction: no feedback was sent, nothing was
\* scored, no later instruction was started and no result was emitted.
\* OpenAIPurpleAgent replies [ASK] whenever it has no API key or its model
\* call fails.
C23_NoQuestionLimit ==
  /\ (received # <<>> /\ IsAskReply(Last(received).response) /\ pc # "raised") =>
       /\ pc = "turn"
       /\ built = FALSE
       /\ eval_result.num_questions = 1
       /\ prompt = eval_result.message
       /\ prompt.text = "Answer: {answer}"
       /\ FeedbacksOf(CurrentInstruction.round) = {}
       /\ round_questions_count > 0
       /\ \A i \in 1..Len(received) :
            (Len(received) - i < round_questions_count) =>
              /\ IsAskReply(received[i].response)
              /\ received[i].round = CurrentInstruction.round
  /\ (OnlyAsked /\ pc # "raised") =>
       /\ pc = "turn"
       /\ round_questions_count = Len(received)
       /\ \A i \in 1..Len(sent) : sent[i].via = "turn"
       /\ Len(sent) = Len(received)
       /\ \A i \in 1..Len(received) :
            received[i].round = AllInstructions[1].round
       /\ CurrentInstruction = AllInstructions[1]
       /\ results = EmptyDict
       /\ scored_count = 0
       /\ result = NoResult
       /\ artifacts = <<>>
  /\ \A completion \in {None, Some(ReplyBuildRed)} :
       /\ IsAskReply(OpenAIPurpleAgent_execute(FALSE, completion))
       /\ IsAskReply(OpenAIPurpleAgent_execute(TRUE, None))

\* the builder has replied [ASK] three times in a row in one instruction and
\* run_eval is about to prompt it with the third answer
C23_Witness ==
  /\ OnlyAsked
  /\ Len(received) = 3
  /\ round_questions_count = 3
  /\ pc = "turn"
  /\ prompt.text = "Answer: {answer}"

\* ------------------------------------------------------------------------
\* Termination of run_eval
\* ------------------------------------------------------------------------
\* the exceptions run_eval can raise once its loops are over (lines 110, 113)
LateErrors == {"ZeroDivisionError", "ValidationError"}

\* a builder or QA call did not return, or a reply carried no valid tag:
\* run_eval raised inside its loops
CallFailedOrInvalid == pc = "raised" /\ error \notin LateErrors

\* the feedback calls made so far
FeedbackCalls == {i \in 1..Len(sent) : sent[i].via = "send_feedback"}

\* run_eval is at line 109 with all N instructions completed and N feedback
\* messages sent
AllDone ==
  /\ pc = "metrics"
  /\ DOMAIN results = {AllInstructions[i].round : i \in 1..Len(AllInstructions)}
  /\ Cardinality(DOMAIN results) = TotalInstructions(trials)
  /\ Cardinality(FeedbackCalls) = TotalInstructions(trials)

\* C24: if every builder and QA call returns, every reply carries a valid
\* action tag and in every instruction the builder eventually replies
\* [BUILD], then run_eval eventually reaches the metric computation with all
\* N instructions of its selection completed and exactly N feedback messages
\* sent.
C24_Completes == <>[](pc = "turn") \/ <>(AllDone \/ CallFailedOrInvalid)

\* the metric computation is reached after three instructions, one of them
\* with a question, and three feedback messages
C24_Witness ==
  /\ AllDone
  /\ TotalInstructions(trials) = 3
  /\ questions_count > 0

\* ------------------------------------------------------------------------
\* Bounds of the counters
\* ------------------------------------------------------------------------
\* the instructions whose scoring (lines 97-106) is done, by the positions
\* of the two for loops
CompletedSoFar ==
  IF pc \in {"metrics", "emit", "returned"} THEN TotalInstructions(trials)
  ELSE (IF speaker_idx = 2 THEN Len(trials.instructions_A) ELSE 0)
         + instr_idx - 1

\* C25: at every point of a run 0 <= num_correct <= scored_count, and
\* scored_count is the number of instructions completed so far: an
\* instruction is never scored with num_correct = None, so the guard of line
\* 97 never skips the scoring; the accuracy computed at line 109 lies between
\* 0 and 100.
C25_CounterBounds ==
  /\ 0 <= num_correct
  /\ num_correct <= scored_count
  /\ scored_count = Cardinality(DOMAIN results)
  /\ pc \in {"for_instruction", "turn", "feedback", "score", "metrics", "emit",
             "returned"} => scored_count = CompletedSoFar
  /\ pc \in {"feedback", "score"} => eval_result.num_correct \in {Some(0), Some(1)}
  /\ \A r \in DOMAIN results : results[r].num_correct # None
  /\ accuracy.den > 0
  /\ 0 <= accuracy.num
  /\ accuracy.num <= 100 * accuracy.den

\* the accuracy of a run of three instructions, one of them built correctly,
\* has been computed: 100 / 3
C25_Witness ==
  /\ pc = "emit"
  /\ scored_count = 3
  /\ num_correct = 1
  /\ accuracy.num = 100
  /\ accuracy.den = 3

\* ------------------------------------------------------------------------
\* Malformed entries
\* ------------------------------------------------------------------------
\* an entry that is not empty and has exactly four comma-separated fields
WellFormedEntry(entry) ==
  Strip(entry) # <<>> /\ CommaCount(Strip(entry)) = 3

\* the entries of the target of the evaluated reply
TargetItems == Split(CurrentInstruction.target_structure, ";")

\* C26: entries of a [BUILD] payload or of a target that are empty or do not
\* have exactly four comma-separated fields are dropped by
\* _normalize_structure and play no part in the comparison: a submission
\* whose well-formed entries are those of the target is scored
\* num_correct = 1, and a submission with no well-formed entry is scored
\* correct exactly when the target has no well-formed entry either.
C26_MalformedEntriesDropped ==
  BuildEvaluated =>
    LET kept_items == SelectSeq(BuildItems, WellFormedEntry)
        kept_targets == SelectSeq(TargetItems, WellFormedEntry)
    IN  /\ \A i \in 1..Len(BuildItems) :
             ~WellFormedEntry(BuildItems[i]) =>
               _normalize_structure(<<BuildItems[i]>>) = {}
        /\ \A i \in 1..Len(TargetItems) :
             ~WellFormedEntry(TargetItems[i]) =>
               _normalize_structure(<<TargetItems[i]>>) = {}
        /\ _normalize_structure(BuildItems) = _normalize_structure(kept_items)
        /\ _normalize_structure(TargetItems) = _normalize_structure(kept_targets)
        /\ eval_result.num_correct =
             EvalBuild(<<BUILD>> \o kept_items,
                       Join(kept_targets, <<";">>)).num_correct
        /\ kept_items = kept_targets => eval_result.num_correct = Some(1)
        /\ kept_items = <<>> =>
             (eval_result.num_correct = Some(1) <=> kept_targets = <<>>)

\* a reply with a well-formed and a three-field entry was scored correct
\* against a target with the same well-formed entry and an empty one
C26_Witness ==
  /\ BuildEvaluated
  /\ eval_result.num_correct = Some(1)
  /\ SelectSeq(BuildItems, WellFormedEntry) # <<>>
  /\ SelectSeq(BuildItems, WellFormedEntry) = SelectSeq(TargetItems, WellFormedEntry)
  /\ \E i \in 1..Len(BuildItems) :
       Strip(BuildItems[i]) # <<>> /\ ~WellFormedEntry(BuildItems[i])
  /\ \E i \in 1..Len(TargetItems) : TargetItems[i] = <<>>
  /\ Len(TargetItems) = 2

\* ------------------------------------------------------------------------
\* Properties of a speaker's list
\* ------------------------------------------------------------------------
\* the slot of the template is a fully_spec slot
IsFsSlot(ordering, k) == ordering[k] = "fully_spec"

\* the number of slots of the category of slot k among the first k slots
SlotRank(ordering, k) ==
  Cardinality({m \in 1..k : IsFsSlot(ordering, m) = IsFsSlot(ordering, k)})

\* the pool a slot draws from
PoolOfSlot(gen, k) ==
  IF IsFsSlot(OrderingOf(gen.speaker), k)
  THEN gen.fully_spec_pool ELSE gen.critical_pool

\* the slots of the template that emit an instruction: the pool has an entry
\* for the slot, and the dataset a row for the entry
EmittingSlots(gen) ==
  LET ordering == OrderingOf(gen.speaker)
      ids == TrialNumbersOf(list1_data)
  IN  {k \in 1..Len(ordering) :
         /\ SlotRank(ordering, k) <= Len(PoolOfSlot(gen, k))
         /\ LET base == PoolOfSlot(gen, k)[SlotRank(ordering, k)]
            IN  base \o VersionOf(ordering[k]) \in ids \/ base \in ids}

\* the elements of a set of numbers in increasing order
RECURSIVE Ascending(_)
Ascending(S) ==
  IF S = {} THEN <<>>
  ELSE LET max == CHOOSE x \in S : \A y \in S : y <= x
       IN  Append(Ascending(S \ {max}), max)

\* C27: a speaker's list holds at most 20 instructions, at most 8 of them
\* from fully_spec slots and at most 12 from critical slots, in the order of
\* the slots of the speaker's template; the k-th slot of a category takes the
\* k-th entry of the category's pool and no other slot takes that entry, so
\* no base number is issued twice to the speaker within a category.
C27_SpeakerList ==
  generated # None =>
    LET gen == generated[1]
        instructions == gen.instructions
        ordering == OrderingOf(gen.speaker)
        slots == Ascending(EmittingSlots(gen))
        fs == {i \in 1..Len(instructions) :
                 CategoryOf(instructions[i]) = "fully_spec"}
    IN  /\ Len(instructions) <= 20
        /\ Cardinality(fs) <= 8
        /\ Len(instructions) - Cardinality(fs) <= 12
        /\ Len(instructions) = Len(slots)
        /\ \A i \in 1..Len(instructions) :
             /\ (i \in fs) = IsFsSlot(ordering, slots[i])
             /\ BaseNum(instructions[i].trial_id)
                  = PoolOfSlot(gen, slots[i])[SlotRank(ordering, slots[i])]
        /\ \A i, j \in 1..Len(instructions) :
             (/\ CategoryOf(instructions[i]) = CategoryOf(instructions[j])
              /\ BaseNum(instructions[i].trial_id)
                   = BaseNum(instructions[j].trial_id)) => i = j

\* Lisa walked a fully_spec pool of more than 8 and a critical pool of more
\* than 12 base numbers and got 8 + 12 instructions, with 'a' and 'b'
\* versions among them
C27_Witness ==
  /\ generated # None
  /\ generated[1].speaker = "Lisa"
  /\ Len(generated[1].fully_spec_pool) > 8
  /\ Len(generated[1].critical_pool) > 12
  /\ Len(generated[1].instructions) = 20
  /\ \E i, j \in 1..20 :
       /\ Last(generated[1].instructions[i].trial_id) = "a"
       /\ Last(generated[1].instructions[j].trial_id) = "b"

\* ------------------------------------------------------------------------
\* Properties of the end of GreenExecutor.execute
\* ------------------------------------------------------------------------
\* the calls that marked the task with the given state
MarkedAs(state) ==
  {i \in 1..Len(updater_calls) : updater_calls[i].state = state}

\* C28: execute marks the task complete only when run_eval returned without
\* raising; when run_eval raised, the task is marked failed exactly once and
\* never complete, with the message "Agent error: {e}", and execute raises
\* an internal server error that carries str(e); a task is never marked both
\* complete and failed, and nothing is marked while run_eval is running.
C28_CompleteOrFailed ==
  /\ Len(updater_calls) <= 1
  /\ MarkedAs("completed") = {} \/ MarkedAs("failed") = {}
  /\ MarkedAs("completed") # {} =>
       /\ pc = "returned"
       /\ error = "none"
       /\ execute_error = None
  /\ MarkedAs("failed") # {} =>
       /\ pc = "raised"
       /\ error # "none"
       /\ updater_calls = <<[state |-> "failed", message |-> AgentErrorMessage]>>
       /\ execute_error = Some([error |-> "InternalError", message |-> StrOfError])
  /\ (execute_error # None /\ execute_error[1].error = "InternalError") =>
       /\ pc = "raised"
       /\ Cardinality(MarkedAs("failed")) = 1
       /\ MarkedAs("completed") = {}
  /\ ~Terminated => updater_calls = <<>> /\ execute_error = None

\* run_eval raised in the middle of an instruction, the task was marked
\* failed and execute raised the internal server error
C28_Witness ==
  /\ pc = "raised"
  /\ error = "TransportError"
  /\ received # <<>>
  /\ Cardinality(MarkedAs("failed")) = 1
  /\ execute_error # None

\* ------------------------------------------------------------------------
\* Properties of the transcript
\* ------------------------------------------------------------------------
\* the positions of the records of replies and of prompts in the transcript
ReplyRecords ==
  {p \in 1..Len(transcript) : transcript[p].text = "{role} -> GREEN: {response}"}
PromptRecords ==
  {p \in 1..Len(transcript) : transcript[p].text = "GREEN -> {role}: {prompt}"}

\* the positions in sent of the calls made in turn
TurnCalls == {i \in 1..Len(sent) : sent[i].via = "turn"}

\* a step leaves the records written so far as they are, in their places
TranscriptGrows ==
  /\ Len(transcript') >= Len(transcript)
  /\ SubSeq(transcript', 1, Len(transcript)) = transcript

\* C29: records are only appended, in the order the messages occur: the
\* record of a prompt is written before the builder is called, also when the
\* call then fails, and the record of the reply directly after it, so every
\* reply record directly follows the record of the prompt it answers, and
\* there are as many reply records as replies received in the loops; without
\* a recorder nothing is recorded.
C29_TranscriptOrdered ==
  [][ /\ TranscriptGrows
      /\ ~recorder' => transcript' = <<>>
      /\ recorder' =>
           /\ ReplyRecords' \cup PromptRecords' = 1..Len(transcript')
           /\ Cardinality(ReplyRecords') = Len(received')
           /\ Cardinality(PromptRecords') =
                Len(sent') + (IF error' = "KeyError" THEN 1 ELSE 0)
           /\ \A p \in ReplyRecords' :
                LET j == Cardinality({q \in ReplyRecords' : q <= p})
                    i == CHOOSE i \in TurnCalls' :
                           Cardinality({k \in TurnCalls' : k <= i}) = j
                IN  /\ p > 1
                    /\ transcript'[p] = ReplyLine(received'[j].response)
                    /\ transcript'[p - 1] = PromptLine(sent'[i].message)
                    /\ p - 1 = i + Cardinality({q \in ReplyRecords' : q < p})
           /\ (sent' # sent /\ received' = received) =>
                transcript' = Append(transcript, PromptLine(Last(sent').message))
    ]_vars

\* with a recorder, a question was answered and a build followed: two reply
\* records, then the prompt record of the feedback
C29_Witness ==
  /\ recorder
  /\ Cardinality(ReplyRecords) = 2
  /\ Len(transcript) = 5
  /\ pc = "score"
  /\ IsAskReply(received[1].response)


\* the colors of a target as the evaluation reads them: the first field of
\* every non-empty block, stripped and capitalized
CapitalizedColors(target_structure) ==
  LET blocks == Split(target_structure, ";")
  IN  {Capitalize(Strip(FirstField(blocks[i], ","))) :
         i \in {j \in 1..Len(blocks) : blocks[j] # <<>>}}

\* the answer that lists the distinct capitalized colors of the target, each
\* once, in sorted order, to a question that mentions "color" in any casing,
\* and the generic acknowledgment otherwise
CapitalizedColorAnswer(question, target_structure) ==
  LET listed == Sorted(CapitalizedColors(target_structure))
  IN  IF Contains(Lower(question), <<"c","o","l","o","r">>) /\ listed # <<>>
      THEN Text("Colors in target: {', '.join(unique_colors)}.",
                <<Join(listed, <<",", " ">>)>>)
      ELSE Text("I can answer questions about the target structure.", <<>>)

\* C30: without a QA service the answer to an [ASK] is a function of the
\* question and the target only: to a question that mentions "color" (any
\* casing) about a target with at least one block it lists the distinct
\* capitalized colors of the target, each once, in a fixed order; otherwise
\* it is the generic acknowledgment.
C30_FallbackListsCapitalizedColors ==
  (AfterAsk /\ ~qa) =>
    eval_result.message =
      Text("Answer: {answer}",
           <<CapitalizedColorAnswer(content, CurrentInstruction.target_structure)>>)

====
